---- MODULE Spec2Model ----
(***************************************************************************)
(* Verification model of BaketaCaptureNative: the C-callable registry      *)
(* (BaketaCaptureNative.cpp) and the per-window capture session            *)
(* (WindowsCaptureSession.cpp): session creation and initialization, the   *)
(* frame slot shared by the frame-arrival callback and the blocking        *)
(* capture calls, and the texture-to-BGRA pixel pipeline.                  *)
(***************************************************************************)
EXTENDS Integers, Sequences, FiniteSets, TLC

VARIABLES
    g_initialized,    \* BaketaCaptureNative.cpp:5
    g_sessions,       \* BaketaCaptureNative.cpp:7   ids present in the registry map
    g_nextSessionId,  \* BaketaCaptureNative.cpp:8
    g_lastError,      \* BaketaCaptureNative.cpp:9
    sess,             \* the WindowsCaptureSession objects, by session id
    cb,               \* per session: the frame-arrival callback in flight
    thr,              \* per host thread: the API call it is executing
    now,              \* last reading of std::chrono::steady_clock, in 100 ns ticks
    texCount,         \* textures handed out by the frame pools so far
    last,             \* the API call that returned most recently, as its caller saw it
    pure              \* inputs/outputs of the pure-function specifications

vars == <<g_initialized, g_sessions, g_nextSessionId, g_lastError,
          sess, cb, thr, now, texCount, last, pure>>

-----------------------------------------------------------------------------
(* Bounds of the model *)

MaxSessions == 2      \* session ids that CreateSession may allocate
MaxFrames == 2        \* textures the frame pool delivers
MaxClock == 2         \* last tick of the steady clock
NumThreads == 2       \* host threads calling the C API
MaxDim == 6           \* largest source / target dimension of the size check

-----------------------------------------------------------------------------
(* Program constants *)

BAKETA_CAPTURE_SUCCESS == 0
BAKETA_CAPTURE_ERROR_INVALID_WINDOW == -1
BAKETA_CAPTURE_ERROR_UNSUPPORTED == -2
BAKETA_CAPTURE_ERROR_NOT_FOUND == -4
BAKETA_CAPTURE_ERROR_MEMORY == -5
BAKETA_CAPTURE_ERROR_DEVICE == -6
S_OK == 0
maxRetries == 3

\* Platform status codes (HRESULT, as the signed 32-bit value the host sees)
E_FAIL == -2147467259               \* 0x80004005
E_ACCESSDENIED == -2147024891       \* 0x80070005
DXGI_ERROR_UNSUPPORTED == -2005270524   \* 0x887A0004

FailureCodes == {E_ACCESSDENIED, DXGI_ERROR_UNSUPPORTED}

FAILED(hr) == hr < 0
SUCCEEDED(hr) == hr >= 0

-----------------------------------------------------------------------------
(* IEEE-754 binary32 arithmetic on non-negative values, as the compiler      *)
(* evaluates the float expressions of the resize path (round to nearest,    *)
(* ties to even).  A float is [m, e] with value m * 2^e, m = 0 or            *)
(* 2^23 <= m < 2^24.                                                         *)

TwoTo23 == 2 ^ 23
TwoTo24 == 2 ^ 24
TwoTo12 == 2 ^ 12

FZero == [m |-> 0, e |-> 0]

RECURSIVE FNormalize(_, _)
FNormalize(m, e) ==
    IF m = 0 THEN FZero
    ELSE IF m >= TwoTo23 THEN [m |-> m, e |-> e]
    ELSE FNormalize(2 * m, e - 1)

\* static_cast<float>(int) for 0 <= n < 2^24 (exact)
IntToFloat(n) == FNormalize(n, 0)

\* round a 24-bit quotient q with remainder indicator (cmp = -1, 0, 1 for the
\* discarded part below, at or above one half) to nearest even
FRound(q, cmp, e) ==
    LET up == (cmp > 0) \/ (cmp = 0 /\ q % 2 = 1)
        q1 == IF up THEN q + 1 ELSE q
    IN  IF q1 = TwoTo24 THEN [m |-> TwoTo23, e |-> e + 1] ELSE [m |-> q1, e |-> e]

RECURSIVE FDivBits(_, _, _, _)
FDivBits(r, d, n, q) ==
    IF n = 0 THEN <<q, r>>
    ELSE IF 2 * r >= d THEN FDivBits(2 * r - d, d, n - 1, 2 * q + 1)
    ELSE FDivBits(2 * r, d, n - 1, 2 * q)

Sign3(x) == IF x > 0 THEN 1 ELSE IF x = 0 THEN 0 ELSE -1

\* a / b, b > 0
FDiv(a, b) ==
    IF a.m = 0 THEN FZero
    ELSE LET big == a.m >= b.m
             qr  == IF big THEN FDivBits(a.m - b.m, b.m, 23, 1)
                    ELSE FDivBits(a.m, b.m, 24, 0)
             e   == IF big THEN a.e - b.e - 23 ELSE a.e - b.e - 24
         IN  FRound(qr[1], Sign3(2 * qr[2] - b.m), e)

\* a * b (the 48-bit product is assembled from 12-bit halves)
FMul(a, b) ==
    IF a.m = 0 \/ b.m = 0 THEN FZero
    ELSE LET a1 == a.m \div TwoTo12   a0 == a.m % TwoTo12
             b1 == b.m \div TwoTo12   b0 == b.m % TwoTo12
             mid == a1 * b0 + a0 * b1
             lo  == a0 * b0 + (mid % TwoTo12) * TwoTo12
             L   == lo % TwoTo24
             H   == a1 * b1 + (mid \div TwoTo12) + (lo \div TwoTo24)
         IN  IF H >= TwoTo23
             THEN FRound(H, Sign3(L - TwoTo23), a.e + b.e + 24)
             ELSE FRound(2 * H + (L \div TwoTo23),
                         Sign3((L % TwoTo23) - (TwoTo23 \div 2)), a.e + b.e + 23)

\* a + b
FAdd(a, b) ==
    IF a.m = 0 THEN b
    ELSE IF b.m = 0 THEN a
    ELSE LET hi == IF a.e >= b.e THEN a ELSE b
             lo == IF a.e >= b.e THEN b ELSE a
             d  == hi.e - lo.e
             sh == IF d > 27 THEN 0 ELSE (lo.m * 8) \div (2 ^ d)
             st == IF d > 27 THEN TRUE ELSE (lo.m * 8) % (2 ^ d) # 0
             S  == hi.m * 8 + sh
             k  == IF S >= 2 ^ 27 THEN 4 ELSE 3
             r  == S % (2 ^ k)
             c0 == Sign3(r - 2 ^ (k - 1))
         IN  FRound(S \div (2 ^ k), IF c0 = 0 /\ st THEN 1 ELSE c0, hi.e - 3 + k)

\* a - b, for a >= b
FSub(a, b) ==
    IF b.m = 0 THEN a
    ELSE LET d  == a.e - b.e
             sh == IF d > 27 THEN 0 ELSE (b.m * 8) \div (2 ^ d)
             st == IF d > 27 THEN TRUE ELSE (b.m * 8) % (2 ^ d) # 0
             D  == a.m * 8 - sh - (IF st THEN 1 ELSE 0)
             k  == IF D >= 2 ^ 26 THEN 3 ELSE IF D >= 2 ^ 25 THEN 2
                   ELSE IF D >= TwoTo24 THEN 1 ELSE 0
             r  == D % (2 ^ k)
             c0 == IF k = 0 THEN -1 ELSE Sign3(r - 2 ^ (k - 1))
         IN  IF k = 0 THEN FNormalize(D, a.e - 3)
             ELSE FRound(D \div (2 ^ k), IF c0 = 0 /\ st THEN 1 ELSE c0, a.e - 3 + k)

\* a > b
FGreater(a, b) ==
    IF a.m = 0 THEN FALSE
    ELSE IF b.m = 0 THEN TRUE
    ELSE a.e > b.e \/ (a.e = b.e /\ a.m > b.m)

\* static_cast<int>(float): truncation toward zero
FloatToInt(a) ==
    IF a.m = 0 THEN 0
    ELSE IF a.e >= 0 THEN a.m * (2 ^ a.e)
    ELSE IF a.e <= -24 THEN 0
    ELSE a.m \div (2 ^ (0 - a.e))

Max(a, b) == IF a >= b THEN a ELSE b
Min(a, b) == IF a <= b THEN a ELSE b

-----------------------------------------------------------------------------
(* Pixel pipeline: sizes *)

\* a size computation that always fits the width, whatever the aspect ratios
ComputeFinalSize_FitsWidth(srcWidth, srcHeight, targetWidth, targetHeight) ==
    LET srcAspect == FDiv(IntToFloat(srcWidth), IntToFloat(srcHeight))
    IN  [w |-> Max(1, targetWidth),
         h |-> Max(1, FloatToInt(FDiv(IntToFloat(targetWidth), srcAspect)))]

\* a size computation that stretches the source to the whole target box
ComputeFinalSize_Stretch(srcWidth, srcHeight, targetWidth, targetHeight) ==
    [w |-> Max(1, targetWidth), h |-> Max(1, targetHeight)]

\* a size computation that always fits the height, whatever the aspect ratios
ComputeFinalSize_FitsHeight(srcWidth, srcHeight, targetWidth, targetHeight) ==
    LET srcAspect == FDiv(IntToFloat(srcWidth), IntToFloat(srcHeight))
    IN  [w |-> Max(1, FloatToInt(FMul(IntToFloat(targetHeight), srcAspect))),
         h |-> Max(1, targetHeight)]

\* WindowsCaptureSession.cpp:884-907, the aspect-preserving final size
ComputeFinalSize(srcWidth, srcHeight, targetWidth, targetHeight) ==
    LET srcAspect    == FDiv(IntToFloat(srcWidth), IntToFloat(srcHeight))
        targetAspect == FDiv(IntToFloat(targetWidth), IntToFloat(targetHeight))
        wide         == FGreater(srcAspect, targetAspect)
        finalWidth   == IF wide THEN targetWidth
                        ELSE FloatToInt(FMul(IntToFloat(targetHeight), srcAspect))
        finalHeight  == IF wide
                        THEN FloatToInt(FDiv(IntToFloat(targetWidth), srcAspect))
                        ELSE targetHeight
    IN  [w |-> Max(1, finalWidth), h |-> Max(1, finalHeight)]

\* a test that skips the resize only for a source strictly inside the box
NoResizeNeeded_Strict(srcWidth, srcHeight, targetWidth, targetHeight) ==
    srcWidth < targetWidth /\ srcHeight < targetHeight

\* WindowsCaptureSession.cpp:910, resize is skipped when the source fits the box
NoResizeNeeded(srcWidth, srcHeight, targetWidth, targetHeight) ==
    srcWidth <= targetWidth /\ srcHeight <= targetHeight

\* ((bytes + 15) / 16) * 16, WindowsCaptureSession.cpp:514 and :959
AlignedStride(pixelRowBytes) == ((pixelRowBytes + 15) \div 16) * 16

-----------------------------------------------------------------------------
(* Pixel pipeline: textures and the mapped staging surface *)

NoTex == [id |-> 0, w |-> 0, h |-> 0]

\* content of a captured texture: channel c of pixel (x, y)
PixelByte(tex, x, y, c) == (tex.id * 67 + y * 29 + x * 13 + c * 5) % 256

\* bytes of a mapped row that lie beyond the last pixel (driver padding)
PadByte == 170

\* D3D11_MAPPED_SUBRESOURCE.pData[off] for a surface mapped with RowPitch
\* pitch >= w * 4
MappedByte(tex, pitch, off) ==
    LET y == off \div pitch
        k == off % pitch
    IN  IF k < tex.w * 4 THEN PixelByte(tex, k \div 4, y, k % 4) ELSE PadByte

\* an output stride that is the aligned packed row, whatever the row pitch
SafeStride_Aligned(width, actualRowPitch) == AlignedStride(width * 4)

\* WindowsCaptureSession.cpp:513-518, the output stride of the direct copy
SafeStride(width, actualRowPitch) ==
    LET alignedStride == AlignedStride(width * 4)
    IN  IF actualRowPitch >= alignedStride THEN actualRowPitch ELSE alignedStride

\* WindowsCaptureSession.cpp:568-582, the row-by-row copy with zero padding
DirectCopyBytes(tex, actualRowPitch) ==
    LET pixelRowBytes == tex.w * 4
        safeStride    == SafeStride(tex.w, actualRowPitch)
        bytesToCopy   == IF pixelRowBytes <= actualRowPitch
                         THEN pixelRowBytes ELSE actualRowPitch
    IN  [i \in 1..(tex.h * safeStride) |->
            LET y == (i - 1) \div safeStride
                k == (i - 1) % safeStride
            IN  IF k < bytesToCopy
                THEN MappedByte(tex, actualRowPitch, y * actualRowPitch + k)
                ELSE 0]

\* WindowsCaptureSession.cpp:1002-1008, one channel of one destination pixel
BilinearChannel(p00, p10, p01, p11, xFrac, yFrac) ==
    LET one    == IntToFloat(1)
        top    == FAdd(FMul(IntToFloat(p00), FSub(one, xFrac)),
                       FMul(IntToFloat(p10), xFrac))
        bottom == FAdd(FMul(IntToFloat(p01), FSub(one, xFrac)),
                       FMul(IntToFloat(p11), xFrac))
        value  == FAdd(FMul(top, FSub(one, yFrac)), FMul(bottom, yFrac))
        f255   == IntToFloat(255)
    IN  FloatToInt(IF FGreater(value, f255) THEN f255 ELSE value)

\* WindowsCaptureSession.cpp:976-1010, the bilinear resample into a buffer of
\* finalHeight rows of outputAlignedStride bytes; bytes of a row beyond the
\* last pixel are never written (Uninit)
Uninit == -1

ResizeBytes(tex, srcRowPitch, finalWidth, finalHeight) ==
    LET outputAlignedStride == AlignedStride(finalWidth * 4)
        xRatio == FDiv(IntToFloat(tex.w), IntToFloat(finalWidth))
        yRatio == FDiv(IntToFloat(tex.h), IntToFloat(finalHeight))
    IN  [i \in 1..(finalHeight * outputAlignedStride) |->
            LET y == (i - 1) \div outputAlignedStride
                k == (i - 1) % outputAlignedStride
                x == k \div 4
                c == k % 4
                srcY  == FMul(IntToFloat(y), yRatio)
                y0    == FloatToInt(srcY)
                y1    == Min(y0 + 1, tex.h - 1)
                yFrac == FSub(srcY, IntToFloat(y0))
                srcX  == FMul(IntToFloat(x), xRatio)
                x0    == FloatToInt(srcX)
                x1    == Min(x0 + 1, tex.w - 1)
                xFrac == FSub(srcX, IntToFloat(x0))
            IN  IF x >= finalWidth THEN Uninit
                ELSE BilinearChannel(
                        MappedByte(tex, srcRowPitch, y0 * srcRowPitch + x0 * 4 + c),
                        MappedByte(tex, srcRowPitch, y0 * srcRowPitch + x1 * 4 + c),
                        MappedByte(tex, srcRowPitch, y1 * srcRowPitch + x0 * 4 + c),
                        MappedByte(tex, srcRowPitch, y1 * srcRowPitch + x1 * 4 + c),
                        xFrac, yFrac)]

-----------------------------------------------------------------------------
(* The target window, as the Win32 queries of the validator see it *)

WinNormal == [exists |-> TRUE, visible |-> TRUE, iconic |-> FALSE, rect |-> TRUE,
              width |-> 800, height |-> 600, foreground |-> TRUE]
WinBackground == [WinNormal EXCEPT !.foreground = FALSE]
WinIconic == [WinNormal EXCEPT !.iconic = TRUE]
WinClosed == [WinNormal EXCEPT !.exists = FALSE, !.visible = FALSE, !.rect = FALSE]

\* the states the window is observed in; it changes asynchronously, so every
\* query of it may see any of them
WindowStates == {WinNormal, WinIconic, WinClosed}

\* handles a host may pass: NULL, the target window, a value that is no window
Hwnds == {"null", "window", "stray"}

IsWindow(hwnd, w) == hwnd = "window" /\ w.exists

HrText(hr) ==
    CASE hr = E_FAIL -> "0x80004005"
      [] hr = E_ACCESSDENIED -> "0x80070005"
      [] hr = DXGI_ERROR_UNSUPPORTED -> "0x887A0004"
      [] OTHER -> "0x00000000"

-----------------------------------------------------------------------------
(* WindowsCaptureSession objects *)

Threads == 1..NumThreads
Ids == 1..MaxSessions

\* the status and message a caller is given
NoReport == [status |-> 0, msg |-> ""]

\* a session id before any object was constructed for it
NoSession ==
    [life |-> "none", m_hwnd |-> "null", m_initialized |-> FALSE,
     m_d3dDevice |-> FALSE, m_winrtDevice |-> FALSE, m_captureItem |-> FALSE,
     m_framePool |-> FALSE, m_captureSession |-> FALSE,
     m_frameReady |-> FALSE, m_latestFrame |-> NoTex,
     m_frameWidth |-> 0, m_frameHeight |-> 0, m_frameTimestamp |-> 0,
     m_lastError |-> "", m_lastHResult |-> S_OK,
     m_frameMutex |-> 0,          \* thread holding the mutex, 0 when free
     capturing |-> FALSE,         \* StartCapture was called on m_captureSession
     \* history of the session, for the properties
     lastStored |-> 0,            \* texture id of the most recent arrival stored
     lastStoredTs |-> 0,          \* the clock reading taken at that arrival
     stored |-> 0,                \* arrivals stored since the last successful capture
     retTex |-> 0,                \* texture id of the last frame returned
     retTs |-> -1,                \* largest timestamp returned so far
     timeoutSeen |-> NoReport,    \* what the caller of a timed-out call was told
     closedBy |-> "none"]         \* the API function that destroyed the object

\* WindowsCaptureSession::WindowsCaptureSession
NewSession(hwnd) == [NoSession EXCEPT !.life = "alive", !.m_hwnd = hwnd]

\* WindowsCaptureSession::~WindowsCaptureSession: closes the capture session
\* and the frame pool; the object and its members are gone afterwards
DestroyedSession == [NoSession EXCEPT !.life = "destroyed"]

\* the object after the unique_ptr holding it was dropped by API function `by`
Destroyed(by) == [DestroyedSession EXCEPT !.closedBy = by]

\* WindowsCaptureSession::SetLastError
SessionSetLastError(S, message) == [S EXCEPT !.m_lastError = message]

\* outcomes of the platform calls of CreateD3DDevice: which call fails, if any
DeviceOutcomes ==
    {[step |-> "ok", hr |-> S_OK], [step |-> "throw", hr |-> S_OK]}
    \cup {[step |-> st, hr |-> h] : st \in {"create", "dxgi", "winrt"}, h \in FailureCodes}

\* WindowsCaptureSession::CreateD3DDevice
CreateD3DDevice(S, o) ==
    CASE o.step = "create" ->
            [ok |-> FALSE,
             S  |-> [S EXCEPT !.m_lastHResult = o.hr,
                       !.m_lastError = "D3D11CreateDevice failed with HRESULT: "
                                       \o HrText(o.hr)]]
      [] o.step = "dxgi" ->
            [ok |-> FALSE,
             S  |-> [S EXCEPT !.m_d3dDevice = TRUE, !.m_lastHResult = o.hr,
                       !.m_lastError = "Failed to get DXGI device with HRESULT: "
                                       \o HrText(o.hr)]]
      [] o.step = "winrt" ->
            [ok |-> FALSE,
             S  |-> [S EXCEPT !.m_d3dDevice = TRUE, !.m_lastHResult = o.hr,
                       !.m_lastError = "Failed to create WinRT Direct3D device with HRESULT: "
                                       \o HrText(o.hr)]]
      [] o.step = "throw" ->
            [ok |-> FALSE,
             S  |-> [S EXCEPT !.m_lastError = "CreateD3DDevice exception"]]
      [] OTHER ->
            [ok |-> TRUE,
             S  |-> [S EXCEPT !.m_d3dDevice = TRUE, !.m_winrtDevice = TRUE]]

\* sizes above which the validator warns of memory use
OversizeWidth == 7680
OversizeHeight == 4320

\* ValidateWindowStateForCapture, lines 677-699: the conditions that are
\* written to the log of a window that passes and change nothing else (the
\* message they set is replaced by the final one at line 716)
ValidationWarnings(w) ==
    (IF w.width > OversizeWidth \/ w.height > OversizeHeight
     THEN {"oversized"} ELSE {})
    \cup (IF ~w.foreground THEN {"not_foreground"} ELSE {})

\* a validator that turns away a window that is not in the foreground
ValidateWindowStateForCapture_NeedsFocus(S, w) ==
    IF S.m_hwnd = "null" \/ ~IsWindow(S.m_hwnd, w) \/ ~w.visible \/ w.iconic
       \/ ~w.rect \/ w.width <= 0 \/ w.height <= 0 \/ ~w.foreground
    THEN [ok |-> FALSE, S |-> SessionSetLastError(S, "Window validation failed")]
    ELSE [ok |-> TRUE, S |-> SessionSetLastError(S, "Window validation PASSED")]

\* WindowsCaptureSession::ValidateWindowStateForCapture
ValidateWindowStateForCapture(S, w) ==
    IF S.m_hwnd = "null"
    THEN [ok |-> FALSE, S |-> SessionSetLastError(S, "Invalid window handle for validation")]
    ELSE IF ~IsWindow(S.m_hwnd, w)
    THEN [ok |-> FALSE, S |-> SessionSetLastError(S, "Window no longer exists")]
    ELSE IF ~w.visible
    THEN [ok |-> FALSE,
          S |-> SessionSetLastError(S, "Window is not visible - may cause white image capture")]
    ELSE IF w.iconic
    THEN [ok |-> FALSE,
          S |-> SessionSetLastError(S,
                  "Window is minimized - Graphics Capture will return white image")]
    ELSE IF ~w.rect
    THEN [ok |-> FALSE, S |-> SessionSetLastError(S, "Failed to get window rectangle")]
    ELSE IF w.width <= 0 \/ w.height <= 0
    THEN [ok |-> FALSE,
          S |-> SessionSetLastError(S, "Invalid window dimensions - zero or negative size")]
    ELSE [ok |-> TRUE, S |-> SessionSetLastError(S, "Window validation PASSED")]

\* outcomes of the platform calls of CreateFramePool
PoolOutcomes ==
    {[step |-> st, hr |-> S_OK] : st \in {"ok", "no_pool", "no_session"}}
    \cup {[step |-> "throw", hr |-> h] : h \in FailureCodes}

\* a frame pool stage that reports success without a capture session
CreateFramePool_WithoutSession(S, o) ==
    IF ~S.m_captureItem \/ ~S.m_winrtDevice
    THEN [ok |-> FALSE, S |-> SessionSetLastError(S, "CaptureItem or WinRT device not initialized")]
    ELSE IF o.step \in {"throw", "no_pool"}
    THEN [ok |-> FALSE, S |-> SessionSetLastError(S, "Failed to create frame pool")]
    ELSE IF o.step = "no_session"
    THEN [ok |-> TRUE, S |-> [S EXCEPT !.m_framePool = TRUE]]
    ELSE [ok |-> TRUE, S |-> [S EXCEPT !.m_framePool = TRUE, !.m_captureSession = TRUE]]

\* WindowsCaptureSession::CreateFramePool
CreateFramePool(S, o) ==
    IF ~S.m_captureItem \/ ~S.m_winrtDevice
    THEN [ok |-> FALSE, S |-> SessionSetLastError(S, "CaptureItem or WinRT device not initialized")]
    ELSE CASE o.step = "throw" ->
                [ok |-> FALSE,
                 S  |-> [S EXCEPT !.m_lastHResult = o.hr,
                           !.m_lastError = "CreateFramePool winrt error: " \o HrText(o.hr)]]
           [] o.step = "no_pool" ->
                [ok |-> FALSE, S |-> SessionSetLastError(S, "Failed to create frame pool")]
           [] o.step = "no_session" ->
                [ok |-> FALSE,
                 S  |-> [S EXCEPT !.m_framePool = TRUE,
                           !.m_lastError = "Failed to create capture session"]]
           [] OTHER ->
                [ok |-> TRUE,
                 S  |-> [S EXCEPT !.m_framePool = TRUE, !.m_captureSession = TRUE]]

\* WindowsCaptureSession::Initialize, its exit after stage `stage` failed
InitializeFailed(S, stage) ==
    SessionSetLastError(S, "DEBUG: " \o stage \o "() failed - " \o S.m_lastError)

\* WindowsCaptureSession::Initialize, its exit after all three stages passed
InitializeSucceeded(S) ==
    [S EXCEPT !.m_initialized = TRUE,
              !.m_lastError = "DEBUG: All initialization steps completed successfully"]

-----------------------------------------------------------------------------
(* Pixel pipeline: the two entry points *)

\* BaketaCaptureFrame as the capture wrappers leave it before the session call
\* (bgraData = <<>> is the null pointer)
NoFrame == [bgraData |-> <<>>, width |-> 0, height |-> 0, stride |-> 0,
            timestamp |-> 0, originalWidth |-> 0, originalHeight |-> 0]

\* RowPitch the driver reports for the mapped staging copy of a texture: the
\* packed row for some surfaces, a padded row for others
StagingRowPitch(tex) == IF tex.id % 2 = 0 THEN tex.w * 4 + 16 ELSE tex.w * 4

\* the k-th texture the frame pools deliver
TexOf(k) == [id |-> k, w |-> IF k % 2 = 1 THEN 4 ELSE 2, h |-> IF k % 2 = 1 THEN 2 ELSE 1]

\* target boxes a host passes to CaptureFrameResized
Targets == {<<0, 2>>, <<2, 2>>}

\* ResizeAndConvertTextureToBGRA, lines 884-907 and 976-1010: the final size
\* and the resampled pixels of a texture for a target box
ResizedImage(tex, targetWidth, targetHeight) ==
    LET final == ComputeFinalSize(tex.w, tex.h, targetWidth, targetHeight)
    IN  [w |-> final.w, h |-> final.h,
         bytes |-> ResizeBytes(tex, StagingRowPitch(tex), final.w, final.h)]

\* ResizedImage tabulated over the textures delivered and the boxes passed
ResizedImages ==
    [k \in 1..MaxFrames |-> [tg \in Targets |-> ResizedImage(TexOf(k), tg[1], tg[2])]]

\* outcomes of the device calls of a conversion
ConvertOutcomes == {"ok", "staging_fail", "map_fail", "alloc_fail", "throw"}

\* WindowsCaptureSession::ConvertTextureToBGRA on a staging surface that maps
\* with RowPitch pitch; f is the frame written through the output pointers, msg
\* the session's last error on return; mapped tells that Map succeeded on the
\* staging surface, unmapped that Unmap was called before the return. "throw"
\* is a std::bad_alloc raised by the debug strings built after the copy (lines
\* 584-604), caught at line 610
ConvertMapped(tex, f, o, pitch) ==
    IF tex = NoTex
    THEN [ok |-> FALSE, f |-> f, msg |-> "Invalid parameters for texture conversion",
          mapped |-> FALSE, unmapped |-> FALSE]
    ELSE IF o = "staging_fail"
    THEN [ok |-> FALSE, f |-> f, msg |-> "Failed to create staging texture",
          mapped |-> FALSE, unmapped |-> FALSE]
    ELSE IF o = "map_fail"
    THEN [ok |-> FALSE, f |-> f, msg |-> "Failed to map staging texture",
          mapped |-> FALSE, unmapped |-> FALSE]
    ELSE LET f1 == [f EXCEPT !.stride = SafeStride(tex.w, pitch)]
         IN  IF o = "alloc_fail"
             THEN [ok |-> FALSE, f |-> f1,
                   msg |-> "P2: Failed to allocate aligned BGRA data memory",
                   mapped |-> TRUE, unmapped |-> TRUE]
             ELSE IF o = "throw"
             THEN [ok |-> FALSE,
                   f |-> [f1 EXCEPT !.bgraData = DirectCopyBytes(tex, pitch)],
                   msg |-> "ConvertTextureToBGRA exception",
                   mapped |-> TRUE, unmapped |-> FALSE]
             ELSE [ok |-> TRUE,
                   f |-> [f1 EXCEPT !.bgraData = DirectCopyBytes(tex, pitch)],
                   msg |-> "P2_DEBUG", mapped |-> TRUE, unmapped |-> TRUE]

\* WindowsCaptureSession::ConvertTextureToBGRA, with the row pitch the driver
\* gives the staging copy of the texture
ConvertTextureToBGRA(tex, f, o) == ConvertMapped(tex, f, o, StagingRowPitch(tex))

\* a resize that fills the buffer but never writes *outputWidth / *outputHeight
ResizedOutputs_NoSize(f, img) ==
    [f EXCEPT !.bgraData = img.bytes, !.stride = AlignedStride(img.w * 4)]

\* ResizeAndConvertTextureToBGRA, lines 958-963 and 1015-1018: the buffer and the
\* output parameters written for the resampled image img
ResizedOutputs(f, img) ==
    [f EXCEPT !.bgraData = img.bytes, !.width = img.w, !.height = img.h,
              !.stride = AlignedStride(img.w * 4)]

\* the resampled image of a texture mapped with RowPitch pitch: looked up in
\* the table for the textures and boxes of the capture specifications,
\* computed otherwise
ResampledImage(tex, pitch, targetWidth, targetHeight) ==
    IF /\ tex.id \in 1..MaxFrames
       /\ tex = TexOf(tex.id)
       /\ pitch = StagingRowPitch(tex)
       /\ <<targetWidth, targetHeight>> \in Targets
    THEN ResizedImages[tex.id][<<targetWidth, targetHeight>>]
    ELSE LET final == ComputeFinalSize(tex.w, tex.h, targetWidth, targetHeight)
         IN  [w |-> final.w, h |-> final.h,
              bytes |-> ResizeBytes(tex, pitch, final.w, final.h)]

\* WindowsCaptureSession::ResizeAndConvertTextureToBGRA on a staging surface
\* that maps with RowPitch pitch; "throw" is a std::bad_alloc raised by the
\* debug string of line 923, before the staging surface exists (nothing after
\* the Map of line 948 can throw), caught at line 1022
ResizeMapped(tex, f, targetWidth, targetHeight, o, pitch) ==
    IF tex = NoTex
    THEN [ok |-> FALSE, f |-> f, msg |-> "Invalid parameters for resize texture conversion",
          mapped |-> FALSE, unmapped |-> FALSE]
    ELSE IF NoResizeNeeded(tex.w, tex.h, targetWidth, targetHeight)
    THEN ConvertMapped(tex, [f EXCEPT !.width = tex.w, !.height = tex.h], o, pitch)
    ELSE IF o = "throw"
    THEN [ok |-> FALSE, f |-> f, msg |-> "ResizeAndConvertTextureToBGRA exception",
          mapped |-> FALSE, unmapped |-> FALSE]
    ELSE IF o = "staging_fail"
    THEN [ok |-> FALSE, f |-> f, msg |-> "Failed to create staging texture for resize",
          mapped |-> FALSE, unmapped |-> FALSE]
    ELSE IF o = "map_fail"
    THEN [ok |-> FALSE, f |-> f, msg |-> "Failed to map staging texture for resize",
          mapped |-> FALSE, unmapped |-> FALSE]
    ELSE IF o = "alloc_fail"
    THEN [ok |-> FALSE, f |-> f, msg |-> "Failed to allocate output buffer for resize",
          mapped |-> TRUE, unmapped |-> TRUE]
    ELSE [ok |-> TRUE,
          f |-> ResizedOutputs(f, ResampledImage(tex, pitch, targetWidth, targetHeight)),
          msg |-> "GPU_RESIZE", mapped |-> TRUE, unmapped |-> TRUE]

\* WindowsCaptureSession::ResizeAndConvertTextureToBGRA, with the row pitch the
\* driver gives the staging copy of the texture
ResizeAndConvertTextureToBGRA(tex, f, targetWidth, targetHeight, o) ==
    ResizeMapped(tex, f, targetWidth, targetHeight, o, StagingRowPitch(tex))

\* a fallback taken only when both target dimensions are missing
ResizeFallsBack_Both(targetWidth, targetHeight) == targetWidth <= 0 /\ targetHeight <= 0

\* WindowsCaptureSession.cpp:810, the resized capture falls back to CaptureFrame
ResizeFallsBack(targetWidth, targetHeight) == targetWidth <= 0 \/ targetHeight <= 0

\* CaptureFrame, lines 415-417: width, height and timestamp are written from
\* the slot before the conversion
SlotDescription(S, f) ==
    [f EXCEPT !.width = S.m_frameWidth, !.height = S.m_frameHeight,
              !.timestamp = S.m_frameTimestamp]

\* a capture that marks the slot consumed also when the conversion failed
ConversionDone_ConsumesOnFailure(S, c, message) ==
    IF ~c.ok
    THEN [ok |-> FALSE, f |-> c.f,
          S |-> [SessionSetLastError(S, message) EXCEPT !.m_frameReady = FALSE],
          pipeline |-> c.msg]
    ELSE [ok |-> TRUE, f |-> c.f,
          S |-> [S EXCEPT !.m_frameReady = FALSE, !.m_lastError = c.msg],
          pipeline |-> c.msg]

\* a capture that leaves the slot marked ready after consuming it
ConversionDone_KeepsReady(S, c, message) ==
    IF ~c.ok
    THEN [ok |-> FALSE, f |-> c.f, S |-> SessionSetLastError(S, message),
          pipeline |-> c.msg]
    ELSE [ok |-> TRUE, f |-> c.f, S |-> [S EXCEPT !.m_lastError = c.msg],
          pipeline |-> c.msg]

\* CaptureFrame, lines 420-430 (CaptureFrameResized, 838-847): after the
\* conversion returned c, a failure is reported with `message`, a success
\* marks the slot consumed; pipeline keeps the message the conversion function
\* itself had left
ConversionDone(S, c, message) ==
    IF ~c.ok
    THEN [ok |-> FALSE, f |-> c.f, S |-> SessionSetLastError(S, message),
          pipeline |-> c.msg]
    ELSE [ok |-> TRUE, f |-> c.f,
          S |-> [S EXCEPT !.m_frameReady = FALSE, !.m_lastError = c.msg],
          pipeline |-> c.msg]

\* WindowsCaptureSession::CaptureFrame, lines 415-430: the part that runs with
\* m_frameMutex held once a frame is ready
CaptureFrameLocked(S, f, o) ==
    ConversionDone(S, ConvertTextureToBGRA(S.m_latestFrame, SlotDescription(S, f), o),
                   "Failed to convert texture to BGRA")

\* WindowsCaptureSession::CaptureFrameResized, lines 834-847: the part that runs
\* with m_frameMutex held once a frame is ready
CaptureFrameResizedLocked(S, f, targetWidth, targetHeight, o) ==
    ConversionDone(S,
        ResizeAndConvertTextureToBGRA(S.m_latestFrame,
            [f EXCEPT !.timestamp = S.m_frameTimestamp],
            targetWidth, targetHeight, o),
        "Failed to resize and convert texture to BGRA")

\* the pre-resize size reported through originalWidth / originalHeight by the
\* session's resized capture (the overload the C wrapper calls)
ReportOriginalSize(f, tex) ==
    [f EXCEPT !.originalWidth = tex.w, !.originalHeight = tex.h]

-----------------------------------------------------------------------------
(* Host threads and the C API wrappers *)

\* what a caller observes of a session-level capture, and what it leaves in
\* the frame slot
CaptureView(ok, f, S) ==
    [ok |-> ok, width |-> f.width, height |-> f.height, stride |-> f.stride,
     timestamp |-> f.timestamp, bgraData |-> f.bgraData,
     ready |-> S.m_frameReady, slot |-> S.m_latestFrame.id]

NoView == CaptureView(FALSE, NoFrame, NoSession)

\* the record of the API call that returned last, kept until the host makes
\* its next call: what the caller observes (status, msg, idOut, frame) and the
\* history needed to state the properties
NoRes ==
    [op |-> "none", status |-> 0, msg |-> "", cause |-> "none",
     wasInit |-> FALSE, hwnd |-> "null", outNull |-> FALSE, isWindow |-> TRUE,
     id |-> 0, idOut |-> 0, platformHr |-> S_OK, recordedHr |-> S_OK,
     attempts |-> 0,
     sid |-> 0, tw |-> 0, th |-> 0, frame |-> NoFrame,
     tex |-> 0, latest |-> 0, latestTs |-> 0, stored |-> 0,
     prevTex |-> 0, prevTs |-> -1,
     timeoutSeen |-> NoReport, out |-> NoView, ref |-> NoView,
     pipeline |-> "",             \* the message the conversion function left
     frameNull |-> FALSE,         \* ReleaseFrame was passed a null pointer
     prevFrame |-> NoFrame,       \* the structure as ReleaseFrame found it
     freed |-> FALSE,             \* the call passed a buffer to _aligned_free
     frees |-> 0,                 \* times the buffer of this frame was freed
     removed |-> FALSE,           \* ReleaseSession found the id in the registry
     win |-> WinNormal]           \* the window as it was when the session function ran

IdleThread ==
    [pc |-> "idle", op |-> "none", sid |-> 0, fn |-> "none", tw |-> 0, th |-> 0,
     attempt |-> 0, hr |-> S_OK, frame |-> NoFrame,
     validated |-> FALSE,         \* the validator passed since the last binding attempt
     win |-> WinNormal]           \* the window as it was when the session function ran

PureIdle == [kind |-> "none"]

\* seen: how the last invocation of the callback that stored nothing ended
NoCallback == [pc |-> "idle", tex |-> NoTex, seen |-> "none"]

Init ==
    /\ g_initialized = FALSE
    /\ g_sessions = {}
    /\ g_nextSessionId = 1
    /\ g_lastError = ""
    /\ sess = [s \in Ids |-> NoSession]
    /\ cb = [s \in Ids |-> NoCallback]
    /\ thr = [t \in Threads |-> IdleThread]
    /\ now = 0
    /\ texCount = 0
    /\ last = NoRes
    /\ pure = PureIdle

\* thread t returns from its call, which its caller observes as r
Returned(t, r) ==
    /\ thr' = [thr EXCEPT ![t] = IdleThread]
    /\ last' = r

InitOutcomes == {"supported", "unsupported", "throw"}

\* BaketaCapture_Initialize
Initialize(t, o) ==
    /\ thr[t].pc = "idle"
    /\ LET r == [NoRes EXCEPT !.op = "Initialize", !.wasInit = g_initialized]
       IN  IF g_initialized
           THEN /\ Returned(t, [r EXCEPT !.status = BAKETA_CAPTURE_SUCCESS,
                                         !.msg = g_lastError, !.cause = "ok"])
                /\ UNCHANGED <<g_initialized, g_lastError>>
           ELSE IF o = "throw"
           THEN /\ g_lastError' = "Failed to initialize: Unknown error"
                /\ Returned(t, [r EXCEPT !.status = BAKETA_CAPTURE_ERROR_DEVICE,
                                         !.msg = g_lastError', !.cause = "throw"])
                /\ UNCHANGED g_initialized
           ELSE IF o = "unsupported"
           THEN /\ g_lastError' =
                      "Windows Graphics Capture API is not supported on this system"
                /\ Returned(t, [r EXCEPT !.status = BAKETA_CAPTURE_ERROR_UNSUPPORTED,
                                         !.msg = g_lastError', !.cause = "unsupported"])
                /\ UNCHANGED g_initialized
           ELSE /\ g_initialized' = TRUE
                /\ g_lastError' = ""
                /\ Returned(t, [r EXCEPT !.status = BAKETA_CAPTURE_SUCCESS,
                                         !.msg = "", !.cause = "ok"])
    /\ UNCHANGED <<g_sessions, g_nextSessionId, sess, cb, now, texCount, pure>>

\* a shutdown that resets the flag and the message but leaves the registry
Shutdown_OnlyFlag(t) ==
    /\ thr[t].pc = "idle"
    /\ LET r == [NoRes EXCEPT !.op = "Shutdown", !.wasInit = g_initialized,
                              !.cause = "ok"]
       IN  IF ~g_initialized
           THEN /\ Returned(t, [r EXCEPT !.msg = g_lastError])
                /\ UNCHANGED <<g_initialized, g_lastError>>
           ELSE /\ g_initialized' = FALSE
                /\ g_lastError' = ""
                /\ Returned(t, r)
    /\ UNCHANGED <<g_sessions, sess, g_nextSessionId, cb, now, texCount, pure>>

\* BaketaCapture_Shutdown: g_sessions.clear() destroys every registered session
Shutdown(t) ==
    /\ thr[t].pc = "idle"
    /\ LET r == [NoRes EXCEPT !.op = "Shutdown", !.wasInit = g_initialized,
                              !.cause = "ok"]
       IN  IF ~g_initialized
           THEN /\ Returned(t, [r EXCEPT !.msg = g_lastError])
                /\ UNCHANGED <<g_initialized, g_sessions, g_lastError, sess>>
           ELSE /\ sess' = [s \in Ids |->
                              IF s \in g_sessions THEN Destroyed("Shutdown")
                              ELSE sess[s]]
                /\ g_sessions' = {}
                /\ g_initialized' = FALSE
                /\ g_lastError' = ""
                /\ Returned(t, r)
    /\ UNCHANGED <<g_nextSessionId, cb, now, texCount, pure>>

\* a release that empties the registry
ReleaseSession_Clear(t, sid) ==
    /\ thr[t].pc = "idle"
    /\ g_sessions' = {}
    /\ sess' = [s \in Ids |-> IF s \in g_sessions THEN Destroyed("ReleaseSession")
                              ELSE sess[s]]
    /\ Returned(t, [NoRes EXCEPT !.op = "ReleaseSession", !.sid = sid,
                                 !.wasInit = g_initialized, !.msg = g_lastError,
                                 !.cause = "ok", !.removed = sid \in g_sessions])
    /\ UNCHANGED <<g_initialized, g_nextSessionId, g_lastError, cb, now,
                   texCount, pure>>

\* BaketaCapture_ReleaseSession: g_sessions.erase(sessionId)
ReleaseSession(t, sid) ==
    /\ thr[t].pc = "idle"
    /\ g_sessions' = g_sessions \ {sid}
    /\ sess' = IF sid \in g_sessions
               THEN [sess EXCEPT ![sid] = Destroyed("ReleaseSession")]
               ELSE sess
    /\ Returned(t, [NoRes EXCEPT !.op = "ReleaseSession", !.sid = sid,
                                 !.wasInit = g_initialized, !.msg = g_lastError,
                                 !.cause = "ok", !.removed = sid \in g_sessions])
    /\ UNCHANGED <<g_initialized, g_nextSessionId, g_lastError, cb, now,
                   texCount, pure>>

\* BaketaCapture_ReleaseFrame, line 268: the condition under which the buffer
\* is passed to _aligned_free
ReleaseFrameFrees(frameNull, f) == ~frameNull /\ f.bgraData # <<>>

\* a release that zeroes the sizes but leaves the pointer in the structure
ReleaseFrameStruct_KeepsPointer(f) ==
    IF f.bgraData # <<>> THEN [NoFrame EXCEPT !.bgraData = f.bgraData] ELSE f

\* BaketaCapture_ReleaseFrame, lines 268-279: the structure after the call
ReleaseFrameStruct(f) == IF f.bgraData # <<>> THEN NoFrame ELSE f

\* the host releases the frame it was handed by the capture call that returned
\* last (or releases it once more), or passes a null pointer
ReleaseFrame(t, frameNull) ==
    /\ thr[t].pc = "idle"
    /\ last.op \in {"CaptureFrame", "CaptureFrameResized", "ReleaseFrame"}
    /\ LET freed == ReleaseFrameFrees(frameNull, last.frame)
       IN  Returned(t, [NoRes EXCEPT
               !.op = "ReleaseFrame", !.wasInit = g_initialized,
               !.msg = g_lastError, !.cause = "ok",
               !.frameNull = frameNull, !.prevFrame = last.frame,
               !.frame = IF frameNull THEN last.frame
                         ELSE ReleaseFrameStruct(last.frame),
               !.freed = freed,
               !.frees = IF freed THEN last.frees + 1 ELSE last.frees])
    /\ UNCHANGED <<g_initialized, g_sessions, g_nextSessionId, g_lastError,
                   sess, cb, now, texCount, pure>>

-----------------------------------------------------------------------------
(* BaketaCapture_CreateSession and WindowsCaptureSession::Initialize *)

\* argument checks that trust any non-null handle to be a window
CreateSessionChecks_NoIsWindow(libInit, hwnd, outNull, w) ==
    IF ~libInit
    THEN [pass |-> FALSE, status |-> BAKETA_CAPTURE_ERROR_DEVICE,
          msg |-> "Library not initialized", cause |-> "not_initialized"]
    ELSE IF hwnd = "null" \/ outNull
    THEN [pass |-> FALSE, status |-> BAKETA_CAPTURE_ERROR_INVALID_WINDOW,
          msg |-> "Invalid parameters", cause |-> "bad_params"]
    ELSE [pass |-> TRUE, status |-> BAKETA_CAPTURE_SUCCESS, msg |-> "", cause |-> "ok"]

\* BaketaCapture_CreateSession, lines 81-100: the checks made before anything
\* is allocated
CreateSessionChecks(libInit, hwnd, outNull, w) ==
    IF ~libInit
    THEN [pass |-> FALSE, status |-> BAKETA_CAPTURE_ERROR_DEVICE,
          msg |-> "Library not initialized", cause |-> "not_initialized"]
    ELSE IF hwnd = "null" \/ outNull
    THEN [pass |-> FALSE, status |-> BAKETA_CAPTURE_ERROR_INVALID_WINDOW,
          msg |-> "Invalid parameters", cause |-> "bad_params"]
    ELSE IF ~IsWindow(hwnd, w)
    THEN [pass |-> FALSE, status |-> BAKETA_CAPTURE_ERROR_INVALID_WINDOW,
          msg |-> "Invalid window handle", cause |-> "not_window"]
    ELSE [pass |-> TRUE, status |-> BAKETA_CAPTURE_SUCCESS, msg |-> "", cause |-> "ok"]

\* a failure status that is always the generic device error
CreateSessionFailureStatus_Generic(S) == BAKETA_CAPTURE_ERROR_DEVICE

\* BaketaCapture_CreateSession, lines 113-118: the status returned when
\* Initialize failed
CreateSessionFailureStatus(S) ==
    IF S.m_lastHResult # S_OK THEN S.m_lastHResult ELSE BAKETA_CAPTURE_ERROR_DEVICE

CreateSessionResult(t) ==
    [NoRes EXCEPT !.op = "CreateSession", !.wasInit = TRUE,
                  !.hwnd = sess[thr[t].sid].m_hwnd, !.id = thr[t].sid]

\* BaketaCapture_CreateSession, lines 107-119: Initialize returned false at the
\* stage `cause`, leaving the session S; the session is destroyed on return
CreateSessionFailed(t, S, cause, hr, attempts) ==
    /\ g_lastError' = S.m_lastError
    /\ sess' = [sess EXCEPT ![thr[t].sid] = Destroyed("CreateSession")]
    /\ Returned(t, [CreateSessionResult(t) EXCEPT
                       !.status = CreateSessionFailureStatus(S),
                       !.msg = S.m_lastError, !.cause = cause,
                       !.platformHr = hr, !.recordedHr = S.m_lastHResult,
                       !.attempts = attempts])
    /\ UNCHANGED <<g_initialized, g_sessions, g_nextSessionId>>

\* a counter that hands out the same id again
FetchAdd_Same(n) == n

\* g_nextSessionId.fetch_add(1): the value the counter holds afterwards
FetchAdd(n) == n + 1

\* BaketaCapture_CreateSession up to the construction of the session object;
\* w is the window's state when IsWindow looks at it
CS_Enter(t, hwnd, outNull, w) ==
    /\ thr[t].pc = "idle"
    /\ LET c == CreateSessionChecks(g_initialized, hwnd, outNull, w)
           r == [NoRes EXCEPT !.op = "CreateSession", !.wasInit = g_initialized,
                              !.hwnd = hwnd, !.outNull = outNull,
                              !.isWindow = IsWindow(hwnd, w)]
       IN  IF ~c.pass
           THEN /\ g_lastError' = c.msg
                /\ Returned(t, [r EXCEPT !.status = c.status, !.msg = c.msg,
                                         !.cause = c.cause])
                /\ UNCHANGED <<g_nextSessionId, sess>>
           ELSE /\ g_nextSessionId <= MaxSessions
                /\ g_nextSessionId' = FetchAdd(g_nextSessionId)
                /\ sess' = [sess EXCEPT ![g_nextSessionId] =
                              SessionSetLastError(NewSession(hwnd),
                                                  "DEBUG: Initialize() started")]
                /\ thr' = [thr EXCEPT ![t] =
                              [IdleThread EXCEPT !.pc = "cs_device",
                                  !.op = "CreateSession", !.sid = g_nextSessionId]]
                /\ last' = NoRes
                /\ UNCHANGED g_lastError
    /\ UNCHANGED <<g_initialized, g_sessions, cb, now, texCount, pure>>

\* a first stage whose failure does not end Initialize
CS_Device_IgnoresFailure(t, o) ==
    /\ thr[t].pc = "cs_device"
    /\ sess' = [sess EXCEPT ![thr[t].sid] =
                  SessionSetLastError(CreateD3DDevice(sess[thr[t].sid], o).S,
                                      "DEBUG: CreateD3DDevice() succeeded")]
    /\ thr' = [thr EXCEPT ![t].pc = "cs_validate"]
    /\ UNCHANGED <<g_initialized, g_sessions, g_nextSessionId, g_lastError, last,
                   cb, now, texCount, pure>>

\* Initialize, stage 1: CreateD3DDevice
CS_Device(t, o) ==
    /\ thr[t].pc = "cs_device"
    /\ LET r == CreateD3DDevice(sess[thr[t].sid], o)
       IN  IF ~r.ok
           THEN CreateSessionFailed(t, InitializeFailed(r.S, "CreateD3DDevice"),
                    IF o.step = "throw" THEN "device_exception" ELSE "device", o.hr, 0)
           ELSE /\ sess' = [sess EXCEPT ![thr[t].sid] =
                              SessionSetLastError(r.S, "DEBUG: CreateD3DDevice() succeeded")]
                /\ thr' = [thr EXCEPT ![t].pc = "cs_validate"]
                /\ UNCHANGED <<g_initialized, g_sessions, g_nextSessionId,
                               g_lastError, last>>
    /\ UNCHANGED <<cb, now, texCount, pure>>

\* outcomes of obtaining IGraphicsCaptureItemInterop
FactoryOutcomes ==
    {[step |-> "ok", hr |-> S_OK], [step |-> "no_interop", hr |-> S_OK]}
    \cup {[step |-> "throw", hr |-> h] : h \in FailureCodes}

\* CreateCaptureItem, lines 180-197: the validation before the first attempt,
\* then the interop factory
CS_Validate(t, w, o) ==
    /\ thr[t].pc = "cs_validate"
    /\ thr[t].attempt = 0
    /\ LET v == ValidateWindowStateForCapture(sess[thr[t].sid], w)
       IN  IF ~v.ok
           THEN /\ o.step = "ok"
                /\ CreateSessionFailed(t,
                     InitializeFailed(SessionSetLastError(v.S,
                        "Window validation failed - invalid state for Graphics Capture"),
                        "CreateCaptureItem"),
                     "validate", S_OK, 0)
           ELSE IF o.step = "throw"
           THEN CreateSessionFailed(t,
                    InitializeFailed([v.S EXCEPT !.m_lastHResult = o.hr,
                        !.m_lastError = "CreateCaptureItem winrt error: " \o HrText(o.hr)],
                        "CreateCaptureItem"),
                    "factory_exception", o.hr, 0)
           ELSE IF o.step = "no_interop"
           THEN CreateSessionFailed(t,
                    InitializeFailed(SessionSetLastError(v.S,
                        "Failed to get IGraphicsCaptureItemInterop"), "CreateCaptureItem"),
                    "no_interop", S_OK, 0)
           ELSE /\ sess' = [sess EXCEPT ![thr[t].sid] = SessionSetLastError(v.S,
                        "DEBUG: About to create GraphicsCaptureItem for validated window")]
                /\ thr' = [thr EXCEPT ![t].pc = "cs_bind", ![t].validated = TRUE]
                /\ UNCHANGED <<g_initialized, g_sessions, g_nextSessionId,
                               g_lastError, last>>
    /\ UNCHANGED <<cb, now, texCount, pure>>

\* CreateCaptureItem, lines 232-238: after the delay, the window is validated
\* again before the next attempt
CS_Revalidate(t, w) ==
    /\ thr[t].pc = "cs_validate"
    /\ thr[t].attempt > 0
    /\ LET v == ValidateWindowStateForCapture(sess[thr[t].sid], w)
       IN  IF ~v.ok
           THEN CreateSessionFailed(t,
                    InitializeFailed(SessionSetLastError(v.S,
                        "Window state changed during retry - aborting"),
                        "CreateCaptureItem"),
                    "revalidate", thr[t].hr, thr[t].attempt)
           ELSE /\ sess' = [sess EXCEPT ![thr[t].sid] = v.S]
                /\ thr' = [thr EXCEPT ![t].pc = "cs_bind", ![t].validated = TRUE]
                /\ UNCHANGED <<g_initialized, g_sessions, g_nextSessionId,
                               g_lastError, last>>
    /\ UNCHANGED <<cb, now, texCount, pure>>

\* a retry loop that allows one attempt more
RetryAfter_OneMore(n) == n <= maxRetries

\* CreateCaptureItem, lines 205 and 230: after n failed attempts another one
\* follows
RetryAfter(n) == n < maxRetries

\* CreateCaptureItem, lines 205-250: one CreateForWindow attempt returning hr
CS_Bind(t, hr) ==
    /\ thr[t].pc = "cs_bind"
    /\ LET S == sess[thr[t].sid]
           n == thr[t].attempt + 1
       IN  IF SUCCEEDED(hr)
           THEN /\ sess' = [sess EXCEPT ![thr[t].sid] =
                              [S EXCEPT !.m_captureItem = TRUE,
                                        !.m_lastError = "DEBUG: CreateCaptureItem() succeeded"]]
                /\ thr' = [thr EXCEPT ![t].pc = "cs_pool", ![t].attempt = n,
                                      ![t].hr = S_OK, ![t].validated = FALSE]
                /\ UNCHANGED <<g_initialized, g_sessions, g_nextSessionId,
                               g_lastError, last>>
           ELSE IF RetryAfter(n)
           THEN /\ sess' = [sess EXCEPT ![thr[t].sid] = SessionSetLastError(S,
                              "CreateForWindow attempt " \o ToString(n)
                              \o " failed with HRESULT: " \o HrText(hr) \o " - retrying")]
                /\ thr' = [thr EXCEPT ![t].pc = "cs_validate", ![t].attempt = n,
                                      ![t].hr = hr, ![t].validated = FALSE]
                /\ UNCHANGED <<g_initialized, g_sessions, g_nextSessionId,
                               g_lastError, last>>
           ELSE CreateSessionFailed(t,
                    InitializeFailed(SessionSetLastError(S,
                        "CreateForWindow failed after " \o ToString(maxRetries)
                        \o " attempts, final HRESULT: " \o HrText(hr)),
                        "CreateCaptureItem"),
                    "bind_exhausted", hr, n)
    /\ UNCHANGED <<cb, now, texCount, pure>>

\* Initialize, stage 3: CreateFramePool; on success the session is registered
\* and its id written (BaketaCapture_CreateSession, lines 121-128)
CS_Pool(t, o) ==
    /\ thr[t].pc = "cs_pool"
    /\ LET r == CreateFramePool(sess[thr[t].sid], o)
       IN  IF ~r.ok
           THEN CreateSessionFailed(t, InitializeFailed(r.S, "CreateFramePool"),
                    IF o.step = "throw" THEN "pool_exception" ELSE "pool", o.hr,
                    thr[t].attempt)
           ELSE /\ sess' = [sess EXCEPT ![thr[t].sid] = InitializeSucceeded(r.S)]
                /\ g_sessions' = g_sessions \cup {thr[t].sid}
                /\ g_lastError' = ""
                /\ Returned(t, [CreateSessionResult(t) EXCEPT
                                   !.status = BAKETA_CAPTURE_SUCCESS, !.cause = "ok",
                                   !.idOut = thr[t].sid, !.attempts = thr[t].attempt])
                /\ UNCHANGED <<g_initialized, g_nextSessionId>>
    /\ UNCHANGED <<cb, now, texCount, pure>>

-----------------------------------------------------------------------------
(* BaketaCapture_CaptureFrame, BaketaCapture_CaptureFrameResized and the
   session functions behind them *)

CaptureOps == {"CaptureFrame", "CaptureFrameResized"}

\* what the wrappers report for the outcome of the session call
\* (BaketaCaptureNative.cpp:178-187 and 240-249)
CaptureReport(op, ok) ==
    IF ok THEN [status |-> BAKETA_CAPTURE_SUCCESS, msg |-> ""]
    ELSE [status |-> BAKETA_CAPTURE_ERROR_DEVICE,
          msg |-> IF op = "CaptureFrame" THEN "Failed to capture frame"
                  ELSE "Failed to capture resized frame"]

CaptureResult(t) ==
    [NoRes EXCEPT !.op = thr[t].op, !.wasInit = TRUE, !.sid = thr[t].sid,
                  !.tw = thr[t].tw, !.th = thr[t].th, !.win = thr[t].win]

\* the session function returned ok to the wrapper, leaving frame f and session
\* S; r carries the history of the call
CaptureReturned(t, ok, f, S, cause, r) ==
    LET rep == CaptureReport(thr[t].op, ok)
    IN  /\ sess' = [sess EXCEPT ![thr[t].sid] = S]
        /\ g_lastError' = rep.msg
        /\ Returned(t, [r EXCEPT !.status = rep.status, !.msg = rep.msg,
                                 !.cause = cause, !.frame = f])

\* the wrappers up to the session call: argument checks, the frame structure
\* zeroed, the session looked up under g_sessionMutex
Cap_Enter(t, op, sid, target, frameNull) ==
    /\ thr[t].pc = "idle"
    /\ LET r == [NoRes EXCEPT !.op = op, !.wasInit = g_initialized, !.sid = sid,
                              !.tw = target[1], !.th = target[2]]
           fail(status, msg, cause) ==
               /\ g_lastError' = msg
               /\ Returned(t, [r EXCEPT !.status = status, !.msg = msg,
                                        !.cause = cause])
       IN  IF ~g_initialized
           THEN fail(BAKETA_CAPTURE_ERROR_DEVICE, "Library not initialized",
                     "not_initialized")
           ELSE IF frameNull
           THEN fail(BAKETA_CAPTURE_ERROR_INVALID_WINDOW, "Invalid frame parameter",
                     "null_frame")
           ELSE IF sid \notin g_sessions
           THEN fail(BAKETA_CAPTURE_ERROR_NOT_FOUND, "Session not found", "not_found")
           ELSE /\ thr' = [thr EXCEPT ![t] =
                              [IdleThread EXCEPT !.pc = "cap_call", !.op = op,
                                  !.sid = sid, !.tw = target[1], !.th = target[2]]]
                /\ last' = NoRes
                /\ UNCHANGED g_lastError
    /\ UNCHANGED <<g_initialized, g_sessions, g_nextSessionId, sess, cb, now,
                   texCount, pure>>

\* the session function whose wait and conversion serve the call
SessionFunction(op, targetWidth, targetHeight) ==
    IF op = "CaptureFrame" \/ ResizeFallsBack(targetWidth, targetHeight)
    THEN "CaptureFrame" ELSE "CaptureFrameResized"

\* CaptureFrame / CaptureFrameResized up to the wait: the state checks and
\* StartCapture; w is the window's state while the function runs, which the
\* function never queries
Cap_Call(t, startThrows, w) ==
    /\ thr[t].pc = "cap_call"
    /\ sess[thr[t].sid].life = "alive"
    /\ LET S  == sess[thr[t].sid]
           fn == SessionFunction(thr[t].op, thr[t].tw, thr[t].th)
           r  == [CaptureResult(t) EXCEPT !.win = w]
       IN  IF ~S.m_initialized
           THEN CaptureReturned(t, FALSE, NoFrame,
                                SessionSetLastError(S, "Session not initialized"),
                                "session_uninit", r)
           ELSE IF ~S.m_captureSession
           THEN CaptureReturned(t, FALSE, NoFrame,
                                SessionSetLastError(S, "Capture session not created"),
                                "no_capture_session", r)
           ELSE IF startThrows
           THEN CaptureReturned(t, FALSE, NoFrame,
                                SessionSetLastError(S, fn \o " winrt error"),
                                "start", r)
           ELSE /\ sess' = [sess EXCEPT ![thr[t].sid].capturing = TRUE]
                /\ thr' = [thr EXCEPT ![t].pc = "cap_wait", ![t].fn = fn,
                                      ![t].win = w]
                /\ UNCHANGED <<g_lastError, last>>
    /\ UNCHANGED <<g_initialized, g_sessions, g_nextSessionId, cb, now,
                   texCount, pure>>

\* a waiter that goes on to the conversion without holding m_frameMutex
Cap_Wake_NoLock(t) ==
    /\ thr[t].pc = "cap_wait"
    /\ sess[thr[t].sid].life = "alive"
    /\ sess[thr[t].sid].m_frameReady
    /\ thr' = [thr EXCEPT ![t].pc = "cap_convert"]
    /\ UNCHANGED <<g_initialized, g_sessions, g_nextSessionId, g_lastError, sess,
                   cb, now, texCount, last, pure>>

\* wait_for returns true: the waiter holds m_frameMutex and m_frameReady is set
Cap_Wake(t) ==
    /\ thr[t].pc = "cap_wait"
    /\ sess[thr[t].sid].life = "alive"
    /\ sess[thr[t].sid].m_frameMutex = 0
    /\ sess[thr[t].sid].m_frameReady
    /\ sess' = [sess EXCEPT ![thr[t].sid].m_frameMutex = t]
    /\ thr' = [thr EXCEPT ![t].pc = "cap_convert"]
    /\ UNCHANGED <<g_initialized, g_sessions, g_nextSessionId, g_lastError, cb,
                   now, texCount, last, pure>>

\* a timeout that tears the session down
CaptureTimedOut_TearsDown(S) ==
    [S EXCEPT !.m_initialized = FALSE, !.m_captureSession = FALSE,
              !.m_framePool = FALSE, !.capturing = FALSE,
              !.m_lastError = "Frame capture timeout"]

\* CaptureFrame, lines 409-413 (CaptureFrameResized, 828-832): what a timed-out
\* wait does to the session
CaptureTimedOut(S) == SessionSetLastError(S, "Frame capture timeout")

\* wait_for returns false: the timeout elapsed with m_frameReady still clear
Cap_Timeout(t) ==
    /\ thr[t].pc = "cap_wait"
    /\ sess[thr[t].sid].life = "alive"
    /\ sess[thr[t].sid].m_frameMutex = 0
    /\ ~sess[thr[t].sid].m_frameReady
    /\ LET S == sess[thr[t].sid]
       IN  CaptureReturned(t, FALSE, NoFrame,
               [CaptureTimedOut(S) EXCEPT
                   !.timeoutSeen = CaptureReport(thr[t].op, FALSE)],
               "timeout", CaptureResult(t))
    /\ UNCHANGED <<g_initialized, g_sessions, g_nextSessionId, cb, now,
                   texCount, pure>>

\* the locked part of the session function returned c on session S: the mutex
\* is released and the wrapper reports; ref is what CaptureFrame does on S
ConversionReturned(t, S, c, ref) ==
    CaptureReturned(t, c.ok,
        IF c.ok /\ thr[t].op = "CaptureFrameResized"
        THEN ReportOriginalSize(c.f, S.m_latestFrame) ELSE c.f,
        IF c.ok
        THEN [c.S EXCEPT !.m_frameMutex = 0, !.stored = 0,
                         !.retTex = S.m_latestFrame.id,
                         !.retTs = Max(S.retTs, c.f.timestamp)]
        ELSE [c.S EXCEPT !.m_frameMutex = 0],
        IF c.ok THEN "ok" ELSE "convert",
        [CaptureResult(t) EXCEPT
            !.tex = S.m_latestFrame.id, !.latest = S.lastStored,
            !.latestTs = S.lastStoredTs, !.stored = S.stored,
            !.prevTex = S.retTex, !.prevTs = S.retTs,
            !.timeoutSeen = S.timeoutSeen, !.pipeline = c.pipeline,
            !.out = CaptureView(c.ok, c.f, c.S),
            !.ref = CaptureView(ref.ok, ref.f, ref.S)])

\* the rest of the session function, with m_frameMutex held: the frame's
\* description and pixels are produced and the slot is marked consumed
Cap_Convert(t, o) ==
    /\ thr[t].pc = "cap_convert"
    /\ sess[thr[t].sid].life = "alive"
    /\ ConversionReturned(t, sess[thr[t].sid],
           IF thr[t].fn = "CaptureFrame"
           THEN CaptureFrameLocked(sess[thr[t].sid], NoFrame, o)
           ELSE CaptureFrameResizedLocked(sess[thr[t].sid], NoFrame,
                                          thr[t].tw, thr[t].th, o),
           CaptureFrameLocked(sess[thr[t].sid], NoFrame, o))
    /\ UNCHANGED <<g_initialized, g_sessions, g_nextSessionId, cb, now,
                   texCount, pure>>

\* the session was destroyed while the call held its raw pointer: every later
\* step of the call reads freed memory
Cap_UseAfterFree(t) ==
    /\ thr[t].pc \in {"cap_call", "cap_wait", "cap_convert"}
    /\ sess[thr[t].sid].life = "destroyed"
    /\ thr' = [thr EXCEPT ![t].pc = "undefined"]
    /\ UNCHANGED <<g_initialized, g_sessions, g_nextSessionId, g_lastError, sess,
                   cb, now, texCount, last, pure>>

-----------------------------------------------------------------------------
(* The frame pool's callback *)

ArrivalOutcomes == {"frame", "miss", "no_texture"}

\* a callback that, finding nothing to store, marks the slot empty and records
\* an error
Arrive_MissClearsSlot(s, o) ==
    /\ sess[s].life = "alive"
    /\ sess[s].capturing
    /\ cb[s].pc = "idle"
    /\ IF o = "frame"
       THEN /\ texCount < MaxFrames
            /\ texCount' = texCount + 1
            /\ cb' = [cb EXCEPT ![s] = [pc |-> "store", tex |-> TexOf(texCount + 1),
                                        seen |-> "none"]]
            /\ UNCHANGED sess
       ELSE /\ cb' = [cb EXCEPT ![s].seen = o]
            /\ sess' = [sess EXCEPT ![s].m_frameReady = FALSE,
                                    ![s].m_lastError = "No frame available"]
            /\ UNCHANGED texCount
    /\ UNCHANGED <<g_initialized, g_sessions, g_nextSessionId, g_lastError,
                   thr, now, last, pure>>

\* OnFrameArrived, lines 344-356: the pool of a started session raises
\* FrameArrived; TryGetNextFrame and GetInterface
Arrive(s, o) ==
    /\ sess[s].life = "alive"
    /\ sess[s].capturing
    /\ cb[s].pc = "idle"
    /\ IF o = "frame"
       THEN /\ texCount < MaxFrames
            /\ texCount' = texCount + 1
            /\ cb' = [cb EXCEPT ![s] = [pc |-> "store", tex |-> TexOf(texCount + 1),
                                        seen |-> "none"]]
       ELSE /\ cb' = [cb EXCEPT ![s].seen = o]
            /\ UNCHANGED texCount
    /\ UNCHANGED <<g_initialized, g_sessions, g_nextSessionId, g_lastError, sess,
                   thr, now, last, pure>>

\* a callback that keeps the frame already waiting in the slot
OnFrameArrivedStore_FirstWins(S, tex, ts) ==
    IF S.m_frameReady THEN S
    ELSE [S EXCEPT !.m_latestFrame = tex, !.m_frameWidth = tex.w,
                   !.m_frameHeight = tex.h, !.m_frameTimestamp = ts,
                   !.m_frameReady = TRUE]

\* a callback that stores the texture and the timestamp of the arrival but
\* leaves the size of the frame the slot held before
OnFrameArrivedStore_StaleSize(S, tex, ts) ==
    [S EXCEPT !.m_latestFrame = tex,
              !.m_frameWidth = IF S.m_frameWidth = 0 THEN tex.w ELSE S.m_frameWidth,
              !.m_frameHeight = IF S.m_frameHeight = 0 THEN tex.h ELSE S.m_frameHeight,
              !.m_frameTimestamp = ts, !.m_frameReady = TRUE]

\* OnFrameArrived, lines 359-373
OnFrameArrivedStore(S, tex, ts) ==
    [S EXCEPT !.m_latestFrame = tex, !.m_frameWidth = tex.w,
              !.m_frameHeight = tex.h, !.m_frameTimestamp = ts,
              !.m_frameReady = TRUE]

\* the callback's critical section; d is the time that passed on the steady
\* clock since it was last read
Store(s, d) ==
    /\ cb[s].pc = "store"
    /\ sess[s].life = "alive"
    /\ sess[s].m_frameMutex = 0
    /\ now + d <= MaxClock
    /\ now' = now + d
    /\ sess' = [sess EXCEPT ![s] =
                  [OnFrameArrivedStore(sess[s], cb[s].tex, now') EXCEPT
                      !.lastStored = cb[s].tex.id,
                      !.lastStoredTs = now',
                      !.stored = IF sess[s].stored < MaxFrames
                                 THEN sess[s].stored + 1 ELSE sess[s].stored]]
    /\ cb' = [cb EXCEPT ![s] = NoCallback]
    /\ UNCHANGED <<g_initialized, g_sessions, g_nextSessionId, g_lastError, thr,
                   texCount, last, pure>>

\* the callback runs on a session that was destroyed after the event was raised
Store_UseAfterFree(s) ==
    /\ cb[s].pc = "store"
    /\ sess[s].life = "destroyed"
    /\ cb' = [cb EXCEPT ![s] = [pc |-> "undefined", tex |-> NoTex, seen |-> "none"]]
    /\ UNCHANGED <<g_initialized, g_sessions, g_nextSessionId, g_lastError, sess,
                   thr, now, texCount, last, pure>>

-----------------------------------------------------------------------------

Next ==
    \/ \E t \in Threads, o \in InitOutcomes : Initialize(t, o)
    \/ \E t \in Threads : Shutdown(t)
    \/ \E t \in Threads, sid \in Ids : ReleaseSession(t, sid)
    \/ \E t \in Threads, frameNull \in BOOLEAN : ReleaseFrame(t, frameNull)
    \/ \E t \in Threads, hwnd \in Hwnds, outNull \in BOOLEAN, w \in WindowStates :
           CS_Enter(t, hwnd, outNull, w)
    \/ \E t \in Threads, o \in DeviceOutcomes : CS_Device(t, o)
    \/ \E t \in Threads, w \in WindowStates, o \in FactoryOutcomes : CS_Validate(t, w, o)
    \/ \E t \in Threads, w \in WindowStates : CS_Revalidate(t, w)
    \/ \E t \in Threads, hr \in {S_OK} \cup FailureCodes : CS_Bind(t, hr)
    \/ \E t \in Threads, o \in PoolOutcomes : CS_Pool(t, o)
    \/ \E t \in Threads, sid \in Ids, target \in Targets, frameNull \in BOOLEAN :
           \/ Cap_Enter(t, "CaptureFrame", sid, <<0, 0>>, frameNull)
           \/ Cap_Enter(t, "CaptureFrameResized", sid, target, frameNull)
    \/ \E t \in Threads, startThrows \in BOOLEAN : Cap_Call(t, startThrows, WinNormal)
    \/ \E t \in Threads : Cap_Wake(t)
    \/ \E t \in Threads : Cap_Timeout(t)
    \/ \E t \in Threads, o \in ConvertOutcomes : Cap_Convert(t, o)
    \/ \E t \in Threads : Cap_UseAfterFree(t)
    \/ \E s \in Ids, o \in ArrivalOutcomes : Arrive(s, o)
    \/ \E s \in Ids, d \in {0, 1} : Store(s, d)
    \/ \E s \in Ids : Store_UseAfterFree(s)

\* the whole library: every API call from every thread, every callback
Spec == Init /\ [][Next]_vars

-----------------------------------------------------------------------------
(* Session creation and the registry, without captures *)

NextCreate ==
    \/ \E t \in Threads, o \in InitOutcomes : Initialize(t, o)
    \/ \E t \in Threads : Shutdown(t)
    \/ \E t \in Threads, sid \in Ids : ReleaseSession(t, sid)
    \/ \E t \in Threads, hwnd \in Hwnds, outNull \in BOOLEAN, w \in WindowStates :
           CS_Enter(t, hwnd, outNull, w)
    \/ \E t \in Threads, o \in DeviceOutcomes : CS_Device(t, o)
    \/ \E t \in Threads, w \in WindowStates, o \in FactoryOutcomes : CS_Validate(t, w, o)
    \/ \E t \in Threads, w \in WindowStates : CS_Revalidate(t, w)
    \/ \E t \in Threads, hr \in {S_OK} \cup FailureCodes : CS_Bind(t, hr)
    \/ \E t \in Threads, o \in PoolOutcomes : CS_Pool(t, o)

SpecCreate == Init /\ [][NextCreate]_vars

-----------------------------------------------------------------------------
(* Captures on a registered session *)

OkOutcome == [step |-> "ok", hr |-> S_OK]

\* the session CreateSession registers when every stage succeeds at once
ReadySession ==
    InitializeSucceeded(
        CreateFramePool(
            [CreateD3DDevice(NewSession("window"), OkOutcome).S
                EXCEPT !.m_captureItem = TRUE],
            OkOutcome).S)

\* what the host observed of that CreateSession call
ReadyResult ==
    [NoRes EXCEPT !.op = "CreateSession", !.wasInit = TRUE, !.hwnd = "window",
                  !.id = 1, !.idOut = 1, !.cause = "ok", !.attempts = 1]

\* the state after Initialize and one successful CreateSession
InitCapture ==
    /\ g_initialized = TRUE
    /\ g_sessions = {1}
    /\ g_nextSessionId = 2
    /\ g_lastError = ""
    /\ sess = [s \in Ids |-> IF s = 1 THEN ReadySession ELSE NoSession]
    /\ cb = [s \in Ids |-> NoCallback]
    /\ thr = [t \in Threads |-> IdleThread]
    /\ now = 0
    /\ texCount = 0
    /\ last = ReadyResult
    /\ pure = PureIdle

NextCapture ==
    \/ \E t \in Threads, frameNull \in BOOLEAN : ReleaseFrame(t, frameNull)
    \/ \E t \in Threads, sid \in Ids, target \in Targets, frameNull \in BOOLEAN :
           \/ Cap_Enter(t, "CaptureFrame", sid, <<0, 0>>, frameNull)
           \/ Cap_Enter(t, "CaptureFrameResized", sid, target, frameNull)
    \/ \E t \in Threads, startThrows \in BOOLEAN : Cap_Call(t, startThrows, WinNormal)
    \/ \E t \in Threads : Cap_Wake(t)
    \/ \E t \in Threads : Cap_Timeout(t)
    \/ \E t \in Threads, o \in ConvertOutcomes : Cap_Convert(t, o)
    \/ \E s \in Ids : Arrive(s, "frame")
    \/ \E s \in Ids, d \in {0, 1} : Store(s, d)

SpecCapture == InitCapture /\ [][NextCapture]_vars

-----------------------------------------------------------------------------
(* The producer and the consumers of one session: every way the callback can
   end, and the window changing under the capture calls *)

NextProducer ==
    \/ \E t \in Threads, target \in Targets :
           \/ Cap_Enter(t, "CaptureFrame", 1, <<0, 0>>, FALSE)
           \/ Cap_Enter(t, "CaptureFrameResized", 1, target, FALSE)
    \/ \E t \in Threads, startThrows \in BOOLEAN, w \in WindowStates :
           Cap_Call(t, startThrows, w)
    \/ \E t \in Threads : Cap_Wake(t)
    \/ \E t \in Threads : Cap_Timeout(t)
    \/ \E t \in Threads : Cap_Convert(t, "ok")
    \/ \E s \in Ids, o \in ArrivalOutcomes : Arrive(s, o)
    \/ \E s \in Ids : Store(s, 1)

SpecProducer == InitCapture /\ [][NextProducer]_vars

-----------------------------------------------------------------------------
(* The registry over the life of the library: sessions are created, captured
   from and released, and the library is shut down, while other calls and
   callbacks are in flight *)

\* D3D11CreateDevice refused
DeviceRefused == [step |-> "create", hr |-> E_ACCESSDENIED]

NextLifecycle ==
    \/ \E t \in Threads, o \in InitOutcomes : Initialize(t, o)
    \/ \E t \in Threads : Shutdown(t)
    \/ \E t \in Threads, sid \in Ids : ReleaseSession(t, sid)
    \/ \E t \in Threads : CS_Enter(t, "window", FALSE, WinNormal)
    \/ \E t \in Threads, o \in {OkOutcome, DeviceRefused} : CS_Device(t, o)
    \/ \E t \in Threads : CS_Validate(t, WinNormal, OkOutcome)
    \/ \E t \in Threads : CS_Bind(t, S_OK)
    \/ \E t \in Threads : CS_Pool(t, OkOutcome)
    \/ \E t \in Threads, sid \in Ids : Cap_Enter(t, "CaptureFrame", sid, <<0, 0>>, FALSE)
    \/ \E t \in Threads : Cap_Call(t, FALSE, WinNormal)
    \/ \E t \in Threads : Cap_Wake(t)
    \/ \E t \in Threads : Cap_Timeout(t)
    \/ \E t \in Threads : Cap_Convert(t, "ok")
    \/ \E t \in Threads : Cap_UseAfterFree(t)
    \/ \E s \in Ids : Arrive(s, "frame")
    \/ \E s \in Ids, d \in {0, 1} : Store(s, d)
    \/ \E s \in Ids : Store_UseAfterFree(s)

SpecLifecycle == Init /\ [][NextLifecycle]_vars

-----------------------------------------------------------------------------
(* The window validator, on its own *)

\* what the Win32 queries of one validator run can report
WindowSnapshots ==
    [exists : BOOLEAN, visible : BOOLEAN, iconic : BOOLEAN, rect : BOOLEAN,
     width : {-1, 0, 800, OversizeWidth, OversizeWidth + 1},
     height : {0, 600, OversizeHeight + 1}, foreground : BOOLEAN]

InitValidate ==
    /\ g_initialized = FALSE
    /\ g_sessions = {}
    /\ g_nextSessionId = 1
    /\ g_lastError = ""
    /\ sess = [s \in Ids |-> NoSession]
    /\ cb = [s \in Ids |-> NoCallback]
    /\ thr = [t \in Threads |-> IdleThread]
    /\ now = 0
    /\ texCount = 0
    /\ last = NoRes
    /\ \E hwnd \in Hwnds, w \in WindowSnapshots :
           pure = [kind |-> "window", hwnd |-> hwnd, w |-> w, ok |-> FALSE,
                   msg |-> "", warnings |-> {}]

\* ValidateWindowStateForCapture applied to a session holding the drawn
\* handle, with the window in the drawn state
ValidateWindow ==
    /\ pure.kind = "window"
    /\ LET v == ValidateWindowStateForCapture(NewSession(pure.hwnd), pure.w)
       IN  pure' = [pure EXCEPT !.kind = "validated", !.ok = v.ok,
                                !.msg = v.S.m_lastError,
                                !.warnings = IF v.ok THEN ValidationWarnings(pure.w)
                                             ELSE {}]
    /\ UNCHANGED <<g_initialized, g_sessions, g_nextSessionId, g_lastError, sess,
                   cb, thr, now, texCount, last>>

NextValidate == ValidateWindow

SpecValidate == InitValidate /\ [][NextValidate]_vars

-----------------------------------------------------------------------------
(* The size computation of the resize path, on its own *)

\* the sizes of the worked example: a 1920 x 1080 window captured into a
\* 640 x 480 box
ScenarioSizes ==
    {[srcWidth |-> 1920, srcHeight |-> 1080, targetWidth |-> 640, targetHeight |-> 480]}

\* source sizes (srcDesc.Width, srcDesc.Height) and positive target boxes
SizeInputs ==
    [srcWidth : 1..MaxDim, srcHeight : 1..MaxDim,
     targetWidth : 1..MaxDim, targetHeight : 1..MaxDim] \cup ScenarioSizes

\* mappedResource.RowPitch for a surface of the given width: packed or padded
RowPitches(width) == {width * 4, width * 4 + 16}

InitSize ==
    /\ g_initialized = FALSE
    /\ g_sessions = {}
    /\ g_nextSessionId = 1
    /\ g_lastError = ""
    /\ sess = [s \in Ids |-> NoSession]
    /\ cb = [s \in Ids |-> NoCallback]
    /\ thr = [t \in Threads |-> IdleThread]
    /\ now = 0
    /\ texCount = 0
    /\ last = NoRes
    /\ \E i \in SizeInputs : \E rowPitch \in RowPitches(i.srcWidth) :
           pure = [kind |-> "input", srcWidth |-> i.srcWidth, srcHeight |-> i.srcHeight,
                   targetWidth |-> i.targetWidth, targetHeight |-> i.targetHeight,
                   rowPitch |-> rowPitch,
                   finalWidth |-> 0, finalHeight |-> 0, stride |-> 0]

\* ResizeAndConvertTextureToBGRA applied to the drawn sizes: the output width,
\* height and stride of lines 884-916 (with ConvertTextureToBGRA, 513-520, when
\* no resize is needed) and of lines 958-959 and 1016-1018
SizeStep ==
    /\ pure.kind = "input"
    /\ LET direct == NoResizeNeeded(pure.srcWidth, pure.srcHeight,
                                    pure.targetWidth, pure.targetHeight)
           final  == IF direct
                     THEN [w |-> pure.srcWidth, h |-> pure.srcHeight]
                     ELSE ComputeFinalSize(pure.srcWidth, pure.srcHeight,
                                           pure.targetWidth, pure.targetHeight)
       IN  pure' = [pure EXCEPT !.kind = "size", !.finalWidth = final.w,
                                !.finalHeight = final.h,
                                !.stride = IF direct
                                           THEN SafeStride(pure.srcWidth, pure.rowPitch)
                                           ELSE AlignedStride(final.w * 4)]
    /\ UNCHANGED <<g_initialized, g_sessions, g_nextSessionId, g_lastError, sess,
                   cb, thr, now, texCount, last>>

NextSize == SizeStep

SpecSize == InitSize /\ [][NextSize]_vars

-----------------------------------------------------------------------------
(* Properties *)

\* the causes with which a session-level capture call returns
SessionCauses == {"ok", "timeout", "convert", "start"}

\* the frame was produced by the direct copy (CaptureFrame, or the fallback)
DirectPath(r) == r.op = "CaptureFrame" \/ r.tw <= 0 \/ r.th <= 0

LastReport == [status |-> last.status, msg |-> last.msg]

\* C1, as stated: every CaptureFrame call on a session either returns a frame
\* whose timestamp is strictly greater than that of every frame the session
\* returned before, or fails with timeout.
C1_StrictOrTimeout ==
    (last.op = "CaptureFrame" /\ last.cause \in SessionCauses) =>
        \/ last.cause = "ok" /\ last.frame.timestamp > last.prevTs
        \/ last.cause = "timeout"

\* C1: every capture call on a session either returns the frame of an arrival
\* later than every arrival whose frame the session returned before, with a
\* timestamp not smaller than any returned before, or fails with the device
\* status (timeout, StartCapture error, or a failure of the pixel pipeline) and
\* with no pixel buffer, unless the direct copy raised an exception after it
\* had allocated the buffer.
C1_LaterFrameOrFailure ==
    (last.op \in CaptureOps /\ last.cause \in SessionCauses) =>
        \/ /\ last.cause = "ok"
           /\ last.status = BAKETA_CAPTURE_SUCCESS
           /\ last.tex > last.prevTex
           /\ last.frame.timestamp >= last.prevTs
        \/ /\ last.cause \in {"timeout", "start", "convert"}
           /\ last.status = BAKETA_CAPTURE_ERROR_DEVICE
           /\ \/ last.frame.bgraData = <<>>
              \/ /\ last.cause = "convert"
                 /\ last.pipeline = "ConvertTextureToBGRA exception"

\* a second frame was returned by CaptureFrame, stamped later than the first
C1_Witness ==
    /\ last.op = "CaptureFrame"
    /\ last.cause = "ok"
    /\ last.prevTex > 0
    /\ last.frame.timestamp > last.prevTs

\* C2: the frame slot is latest-wins: a successful capture returns the texture
\* and timestamp of the most recent arrival stored (and, on the direct path,
\* its dimensions and pixels), however many arrivals were stored since the
\* last capture; an earlier arrival is never returned afterwards.
C2_LatestWins ==
    (last.op \in CaptureOps /\ last.cause = "ok") =>
        /\ last.tex = last.latest
        /\ last.tex > last.prevTex
        /\ last.frame.timestamp = last.latestTs
        /\ DirectPath(last) =>
              /\ last.frame.width = TexOf(last.latest).w
              /\ last.frame.height = TexOf(last.latest).h
              /\ last.frame.bgraData =
                    DirectCopyBytes(TexOf(last.latest),
                                    StagingRowPitch(TexOf(last.latest)))

\* a capture succeeded after two arrivals were stored with no capture between
C2_Witness ==
    /\ last.op \in CaptureOps
    /\ last.cause = "ok"
    /\ last.stored >= 2
    /\ last.tex = 2

\* C3: a capture call that timed out leaves the session usable: the session
\* stays alive, initialized and registered with its pool and capture session,
\* the producer stays started, and no later capture call is turned away by the
\* session's state checks.
C3_TimeoutLeavesSessionUsable ==
    /\ \A s \in Ids :
          sess[s].timeoutSeen # NoReport =>
              /\ sess[s].life = "alive"
              /\ sess[s].m_initialized
              /\ sess[s].m_framePool
              /\ sess[s].m_captureSession
              /\ sess[s].capturing
              /\ s \in g_sessions
    /\ last.op \in CaptureOps =>
          last.cause \notin {"session_uninit", "no_capture_session"}

\* a capture succeeded on a session on which an earlier call had timed out
C3_Witness ==
    /\ last.op \in CaptureOps
    /\ last.cause = "ok"
    /\ last.timeoutSeen # NoReport
    /\ last.frame.bgraData # <<>>

\* C4, as stated: the status and last-error message the caller observes when
\* texture conversion fails differ from those it observed for a timeout.
C4_TimeoutReportedDistinctly ==
    (last.op \in CaptureOps /\ last.cause = "convert"
        /\ last.timeoutSeen # NoReport) =>
        LastReport # last.timeoutSeen

\* C5: initialization never leaves a session partly built and usable: the
\* initialized flag implies device, interop device, capture item, frame pool
\* and capture session; only initialized live sessions are registered; and a
\* CreateSession whose initialization failed at any stage returns non-success,
\* writes no id, registers nothing and leaves no session object behind.
C5_NoPartialSession ==
    /\ \A s \in Ids :
          sess[s].m_initialized =>
              /\ sess[s].m_d3dDevice /\ sess[s].m_winrtDevice
              /\ sess[s].m_captureItem
              /\ sess[s].m_framePool /\ sess[s].m_captureSession
    /\ \A s \in g_sessions : sess[s].life = "alive" /\ sess[s].m_initialized
    /\ (last.op = "CreateSession" /\ last.id # 0 /\ last.cause # "ok") =>
          /\ last.status # BAKETA_CAPTURE_SUCCESS
          /\ last.idOut = 0
          /\ last.id \notin g_sessions
          /\ sess[last.id].life = "destroyed"
          /\ ~sess[last.id].m_initialized

\* CreateSession failed at the last stage, after device and item were built
C5_Witness ==
    /\ last.op = "CreateSession"
    /\ last.cause = "pool"
    /\ last.id # 0
    /\ last.status = BAKETA_CAPTURE_ERROR_DEVICE

\* C6: when device creation or the interop bridge after it fails with platform
\* code h, the session records h and CreateSession returns exactly h, not the
\* generic device error.
C6_DeviceCodePreserved ==
    (last.op = "CreateSession" /\ last.cause = "device") =>
        /\ last.platformHr \in FailureCodes
        /\ last.recordedHr = last.platformHr
        /\ last.status = last.platformHr
        /\ last.status # BAKETA_CAPTURE_ERROR_DEVICE

\* CreateSession returned after the device stage failed with E_ACCESSDENIED
C6_Witness ==
    /\ last.op = "CreateSession"
    /\ last.cause = "device"
    /\ last.platformHr = E_ACCESSDENIED
    /\ last.status = E_ACCESSDENIED

\* C7, as stated: when every binding attempt failed, the session's recorded
\* code and the status CreateSession returns are the code of the last attempt.
C7_BindCodeSurfaced ==
    (last.op = "CreateSession" /\ last.cause = "bind_exhausted") =>
        /\ last.recordedHr = last.platformHr
        /\ last.status = last.platformHr

\* the arguments CreateSession turns away: a null handle, a null id output, or
\* a handle that is not a window
BadCreateArguments(r) ==
    r.hwnd \in {"null", "stray"} \/ r.outNull \/ ~r.isWindow

\* C8, as stated: CreateSession with a null handle, a null id output or a
\* handle that is not a window fails with the invalid-window status and
\* constructs nothing.
C8_InvalidWindowAlways ==
    (last.op = "CreateSession" /\ BadCreateArguments(last)) =>
        /\ last.status = BAKETA_CAPTURE_ERROR_INVALID_WINDOW
        /\ last.id = 0
        /\ last.idOut = 0

\* the step in which a CreateSession call is turned away by its argument checks
RejectedCreateStep ==
    /\ last' # last
    /\ last'.op = "CreateSession"
    /\ last'.wasInit
    /\ BadCreateArguments(last')

\* C8: on an initialized library, CreateSession with a null handle, a null id
\* output or a handle that is not a window fails with the invalid-window
\* status, constructs no session, writes no id, and the call leaves the
\* registry, the id counter and every session as they were.
C8_FailFast ==
    /\ [](  (last.op = "CreateSession" /\ last.wasInit /\ BadCreateArguments(last)) =>
               /\ last.status = BAKETA_CAPTURE_ERROR_INVALID_WINDOW
               /\ last.id = 0
               /\ last.idOut = 0)
    /\ [][RejectedCreateStep =>
             UNCHANGED <<g_initialized, g_sessions, g_nextSessionId, sess>>]_vars

\* an initialized library turned away a handle that is not a window
C8_Witness ==
    /\ last.op = "CreateSession"
    /\ last.wasInit
    /\ last.hwnd = "stray"
    /\ ~last.outNull
    /\ last.status = BAKETA_CAPTURE_ERROR_INVALID_WINDOW

\* C9: CaptureFrameResized with a target dimension <= 0 behaves exactly like
\* CaptureFrame on the same session state and frame: same result, width,
\* height, stride, timestamp and pixel bytes, and the same slot state after.
C9_FallbackEqualsCaptureFrame ==
    (last.op = "CaptureFrameResized" /\ (last.tw <= 0 \/ last.th <= 0)
        /\ last.cause \in {"ok", "convert"}) =>
        last.out = last.ref

\* a resized capture with target width 0 returned the pixels of a frame
C9_Witness ==
    /\ last.op = "CaptureFrameResized"
    /\ last.tw <= 0
    /\ last.cause = "ok"
    /\ last.out.bgraData # <<>>
    /\ last.out.width = TexOf(last.tex).w

\* the source exceeds the target box in at least one dimension
ExceedsBox == pure.srcWidth > pure.targetWidth \/ pure.srcHeight > pure.targetHeight

\* C10: for a source that exceeds a positive target box in at least one
\* dimension the final size fits the box, touches it in one dimension, and is
\* at least 1 x 1.
C10_FinalSizeFitsBox ==
    (pure.kind = "size" /\ ExceedsBox) =>
        /\ pure.finalWidth <= pure.targetWidth
        /\ pure.finalHeight <= pure.targetHeight
        /\ pure.finalWidth = pure.targetWidth \/ pure.finalHeight = pure.targetHeight
        /\ pure.finalWidth >= 1
        /\ pure.finalHeight >= 1

\* a tall source was scaled down to the height of the box
C10_Witness ==
    /\ pure.kind = "size"
    /\ pure.srcHeight > pure.targetHeight
    /\ pure.finalHeight = pure.targetHeight
    /\ pure.finalWidth < pure.targetWidth
    /\ pure.finalWidth < pure.srcWidth

Abs(x) == IF x < 0 THEN 0 - x ELSE x

\* the box is smaller than the source in both dimensions
BoxSmaller == pure.targetWidth < pure.srcWidth /\ pure.targetHeight < pure.srcHeight

\* C11, as stated: for a target box smaller than the source,
\* |finalW/finalH - srcW/srcH| < 1/min(finalW, finalH)  (cross-multiplied).
C11_AspectWithinTolerance ==
    (pure.kind = "size" /\ BoxSmaller) =>
        Min(pure.finalWidth, pure.finalHeight)
            * Abs(pure.finalWidth * pure.srcHeight - pure.finalHeight * pure.srcWidth)
          < pure.finalHeight * pure.srcHeight

\* C11: on the resize path the final size preserves the source aspect ratio up
\* to the truncation of the scaled dimension to whole pixels: either the width
\* is the box's and the height differs from targetW * srcH / srcW by less than
\* 1 + 1/256 pixel, or the height is the box's and the width differs from
\* targetH * srcW / srcH by less than 1 + 1/256 pixel (one pixel of truncation
\* or clamping, 1/256 for the rounding of the two float operations).
C11_AspectWithinOnePixel ==
    (pure.kind = "size" /\ ExceedsBox) =>
        \/ /\ pure.finalWidth = pure.targetWidth
           /\ 256 * Abs(pure.finalHeight * pure.srcWidth
                        - pure.targetWidth * pure.srcHeight) < 257 * pure.srcWidth
        \/ /\ pure.finalHeight = pure.targetHeight
           /\ 256 * Abs(pure.finalWidth * pure.srcHeight
                        - pure.targetHeight * pure.srcWidth) < 257 * pure.srcHeight

\* a wide source scaled by width whose height lost a fraction of a pixel: the
\* aspect ratio moved by more than the stated tolerance
C11_Witness ==
    /\ pure.kind = "size"
    /\ BoxSmaller
    /\ pure.finalWidth = pure.targetWidth
    /\ pure.finalHeight < pure.targetHeight
    /\ pure.finalHeight * pure.srcWidth < pure.targetWidth * pure.srcHeight
    /\ ~C11_AspectWithinTolerance

\* the worked example's sizes went through the size computation
ScenarioDone ==
    /\ pure.kind = "size"
    /\ pure.srcWidth = 1920 /\ pure.srcHeight = 1080
    /\ pure.targetWidth = 640 /\ pure.targetHeight = 480

\* C14: for a 1920 x 1080 source frame and target 640 x 480 the resize path
\* reports width 640, height 360 and stride 2560.
C14_Scenario ==
    ScenarioDone =>
        /\ pure.finalWidth = 640
        /\ pure.finalHeight = 360
        /\ pure.stride = 2560

\* the 1920 x 1080 source was scaled by its width to 360 rows
C14_Witness ==
    /\ ScenarioDone
    /\ pure.finalWidth = pure.targetWidth
    /\ pure.finalHeight = 360
    /\ pure.stride = 2560

\* the texture a capture call consumed
LastTex == TexOf(last.tex)

\* a resized capture whose positive target box holds the whole source
BoxHoldsSource ==
    /\ last.op = "CaptureFrameResized"
    /\ last.tw > 0 /\ last.th > 0
    /\ last.tw >= LastTex.w /\ last.th >= LastTex.h

\* C12: the resize path never upscales: when targetW >= srcW and
\* targetH >= srcH a successful CaptureFrameResized reports the source width
\* and height, with the stride and the pixel bytes CaptureFrame produces for
\* the same frame (the direct copy).
C12_NeverUpscales ==
    (BoxHoldsSource /\ last.cause = "ok") =>
        /\ last.frame.width = LastTex.w
        /\ last.frame.height = LastTex.h
        /\ last.ref.ok
        /\ last.frame.stride = last.ref.stride
        /\ last.frame.bgraData = last.ref.bgraData
        /\ last.frame.bgraData = DirectCopyBytes(LastTex, StagingRowPitch(LastTex))

\* a 2 x 1 frame was captured into a 2 x 2 box and came back 2 x 1
C12_Witness ==
    /\ BoxHoldsSource
    /\ last.cause = "ok"
    /\ last.th > LastTex.h
    /\ last.frame.width = 2
    /\ last.frame.height = 1
    /\ last.frame.bgraData # <<>>

\* C13, as stated: for every successful capture, whatever row pitch the mapped
\* staging surface reports, the output stride is >= width * 4 and a multiple
\* of 16.
C13_StrideAligned ==
    (last.op \in CaptureOps /\ last.cause = "ok") =>
        /\ last.frame.stride >= last.frame.width * 4
        /\ last.frame.stride % 16 = 0

\* the capture went through the bilinear resize
Resized ==
    /\ last.op = "CaptureFrameResized"
    /\ last.tw > 0 /\ last.th > 0
    /\ LastTex.w > last.tw \/ LastTex.h > last.th

C16_ReleaseFrameIdempotent ==
    /\ last.frees <= 1
    /\ last.op = "ReleaseFrame" =>
          IF ~last.frameNull /\ last.prevFrame.bgraData # <<>>
          THEN /\ last.freed
               /\ last.frees = 1
               /\ last.frame = NoFrame
          ELSE /\ ~last.freed
               /\ last.frame = last.prevFrame

\* a second ReleaseFrame on a structure whose buffer the first one freed
C16_Witness ==
    /\ last.op = "ReleaseFrame"
    /\ ~last.frameNull
    /\ last.frees = 1
    /\ ~last.freed
    /\ last.prevFrame = NoFrame
    /\ last.frame = NoFrame

\* what the conversion functions leave when _aligned_malloc returns null
AllocationFailureMessages ==
    {"P2: Failed to allocate aligned BGRA data memory",
     "Failed to allocate output buffer for resize"}

\* C20, as stated: when the allocation of the output buffer fails, the status
\* or the last-error message the caller gets differs from what the same call
\* reports when the staging texture cannot be created.
C20_AllocationFailureDistinct ==
    (last.op \in CaptureOps /\ last.cause = "convert"
        /\ last.pipeline \in AllocationFailureMessages) =>
        LastReport #
            CaptureReport(last.op,
                          ConvertTextureToBGRA(LastTex, NoFrame, "staging_fail").ok)

\* the step in which a ReleaseSession call returns
ReleaseSessionStep == last' # last /\ last'.op = "ReleaseSession"

\* C17: ReleaseSession(id) removes and destroys the session registered under
\* id and nothing else: for an id that is not registered (never issued,
\* released before, or of a session whose initialization failed) the call
\* changes nothing, and in every case every other session keeps its place in
\* the registry, its object (initialized, frame slot and all) and its
\* callback.
C17_ReleaseSessionFrame ==
    [][ReleaseSessionStep =>
          /\ g_sessions' = g_sessions \ {last'.sid}
          /\ last'.removed = (last'.sid \in g_sessions)
          /\ IF last'.sid \in g_sessions
             THEN sess'[last'.sid].life = "destroyed"
             ELSE sess'[last'.sid] = sess[last'.sid]
          /\ \A s \in Ids \ {last'.sid} :
                /\ sess'[s] = sess[s]
                /\ cb'[s] = cb[s]
                /\ s \in g_sessions => sess'[s].life = "alive" /\ sess'[s].m_initialized
          /\ UNCHANGED <<g_initialized, g_nextSessionId, g_lastError>>]_vars

\* a session was released while another one, registered, held a frame in its
\* slot
C17_Witness ==
    /\ last.op = "ReleaseSession"
    /\ last.removed
    /\ sess[last.sid].closedBy = "ReleaseSession"
    /\ \E s \in g_sessions : s # last.sid /\ sess[s].m_frameReady

\* the step in which Shutdown returns on an initialized library
ShutdownStep == last' # last /\ last'.op = "Shutdown" /\ last'.wasInit

StatusOps == {"Initialize", "CreateSession", "CaptureFrame", "CaptureFrameResized"}

\* C19, as stated (for the functions that return a status): a call that
\* returns a failure has set the last-error message, and a call that returns
\* success leaves the message empty.
C19_LastErrorReflectsLastCall ==
    last.op \in StatusOps =>
        IF last.status = BAKETA_CAPTURE_SUCCESS THEN last.msg = "" ELSE last.msg # ""

\* C21: a session is never resurrected. An id whose session was destroyed
\* (released, shut down, or failed to initialize) stays destroyed and out of
\* the registry; a session object is only ever constructed under the id the
\* counter holds, which then moves past it, so every id in use lies below the
\* counter and no id is allocated twice; and m_initialized of a live session
\* never goes from true to false.
C21_NeverResurrected ==
    /\ [](\A s \in Ids :
            /\ sess[s].life # "none" => s < g_nextSessionId
            /\ sess[s].life = "destroyed" => s \notin g_sessions)
    /\ [][\A s \in Ids :
            /\ sess[s].life = "destroyed" => sess'[s].life = "destroyed"
            /\ (sess[s].life = "none" /\ sess'[s].life # "none") =>
                    s = g_nextSessionId /\ g_nextSessionId' > s
            /\ g_nextSessionId' >= g_nextSessionId
            /\ (sess[s].life = "alive" /\ sess[s].m_initialized /\
                    sess'[s].life = "alive") => sess'[s].m_initialized]_vars

\* a capture with the id of a session that was released or failed to
\* initialize found no session, although a session created later is registered
C21_Witness ==
    /\ last.op \in CaptureOps
    /\ last.status = BAKETA_CAPTURE_ERROR_NOT_FOUND
    /\ sess[last.sid].closedBy \in {"ReleaseSession", "CreateSession"}
    /\ \E s \in g_sessions : s > last.sid /\ sess[s].m_initialized

\* C22, as stated: the producer callback never waits for a consumer. A
\* callback that has fetched its frame and stands before its critical section
\* on a live session finds m_frameMutex free.
C22_ProducerNeverBlocks ==
    \A s \in Ids :
        (cb[s].pc = "store" /\ sess[s].life = "alive") => sess[s].m_frameMutex = 0

\* C23, as stated: no producer callback runs on a session whose destructor
\* has run. Whenever a session is destroyed, its callback is not inside
\* OnFrameArrived.
C23_NoCallbackAfterClose ==
    \A s \in Ids : sess[s].life = "destroyed" => cb[s].pc = "idle"

\* the thread is inside the session function of a capture call
InSessionFunction(t) == thr[t].pc \in {"cap_call", "cap_wait", "cap_convert"}

\* C24, as stated: a session is never destroyed while a capture call is
\* executing on it. The session object a capture call looked up is alive for
\* as long as the call is inside the session function.
C24_SessionOutlivesCapture ==
    \A t \in Threads : InSessionFunction(t) => sess[thr[t].sid].life = "alive"

\* thread t runs the validator inside CreateCaptureItem
ValidateStep(t) == thr[t].pc = "cs_validate" /\ thr'[t] # thr[t]

\* thread t makes one CreateForWindow attempt
BindStep(t) == thr[t].pc = "cs_bind" /\ thr'[t] # thr[t]

\* thread t returned from CreateSession with a failure after n attempts
CreateFailedAfter(t, n) ==
    /\ thr'[t].pc = "idle"
    /\ last'.op = "CreateSession"
    /\ last'.id = thr[t].sid
    /\ last'.status # BAKETA_CAPTURE_SUCCESS
    /\ last'.attempts = n

\* C25: item binding makes at most maxRetries = 3 attempts per initialization;
\* a thread stands before an attempt only with a validation passed since the
\* previous attempt and fewer than 3 attempts made; a validator run either
\* passes and leads to the next attempt or ends the call in failure with no
\* further attempt; an attempt either succeeds, which ends binding, or fails
\* and leads back to the validator, or is the third and ends the call in
\* failure.
C25_BoundedValidatedBinding ==
    /\ [](/\ last.attempts <= maxRetries
          /\ \A t \in Threads :
                /\ thr[t].attempt <= maxRetries
                /\ thr[t].pc = "cs_bind" =>
                       thr[t].validated /\ thr[t].attempt < maxRetries
                /\ thr[t].pc = "cs_pool" =>
                       thr[t].attempt >= 1 /\ sess[thr[t].sid].m_captureItem)
    /\ [][\A t \in Threads :
            /\ ValidateStep(t) =>
                  \/ /\ thr'[t].pc = "cs_bind"
                     /\ thr'[t].validated
                     /\ thr'[t].attempt = thr[t].attempt
                  \/ CreateFailedAfter(t, thr[t].attempt)
            /\ BindStep(t) =>
                  \/ /\ thr'[t].pc = "cs_pool"
                     /\ thr'[t].attempt = thr[t].attempt + 1
                  \/ /\ thr'[t].pc = "cs_validate"
                     /\ thr'[t].attempt = thr[t].attempt + 1
                     /\ thr'[t].attempt < maxRetries
                     /\ ~thr'[t].validated
                     /\ FAILED(thr'[t].hr)
                  \/ /\ CreateFailedAfter(t, maxRetries)
                     /\ thr[t].attempt + 1 = maxRetries
                     /\ last'.cause = "bind_exhausted"]_vars

\* the window was found invalid between the second and the third attempt, and
\* the call failed with two attempts made
C25_Witness ==
    /\ last.op = "CreateSession"
    /\ last.cause = "revalidate"
    /\ last.attempts = 2
    /\ last.status # BAKETA_CAPTURE_SUCCESS

\* the stage of Initialize a thread is in: 1 device creation, 2 item binding,
\* 3 frame-pool creation, 0 outside Initialize
StageOf(pc) ==
    CASE pc = "cs_device" -> 1
      [] pc \in {"cs_validate", "cs_bind"} -> 2
      [] pc = "cs_pool" -> 3
      [] OTHER -> 0

\* the causes of failure each stage reports
StageCauses(n) ==
    CASE n = 1 -> {"device", "device_exception"}
      [] n = 2 -> {"validate", "factory_exception", "no_interop", "revalidate",
                   "bind_exhausted"}
      [] n = 3 -> {"pool", "pool_exception"}
      [] OTHER -> {}

\* C26: Initialize runs device creation, item binding and frame-pool creation
\* in that order. A thread is in a stage only with the results of every
\* earlier stage in the session and none of a later one; a step of a stage
\* stays in the stage, moves to the next one, ends the call in success (from
\* the last stage only, with m_initialized set and the session registered) or
\* ends it in a failure that this very stage caused, with the session
\* destroyed and never registered.
C26_StagesInOrder ==
    /\ [](\A t \in Threads :
            LET S == sess[thr[t].sid]
                n == StageOf(thr[t].pc)
            IN  n > 0 =>
                  /\ S.life = "alive" /\ ~S.m_initialized
                  /\ S.m_winrtDevice = (n >= 2)
                  /\ S.m_captureItem = (n >= 3)
                  /\ ~S.m_framePool /\ ~S.m_captureSession
                  /\ thr[t].sid \notin g_sessions)
    /\ [][\A t \in Threads :
            (StageOf(thr[t].pc) > 0 /\ thr'[t] # thr[t]) =>
               \/ /\ StageOf(thr'[t].pc) \in {StageOf(thr[t].pc), StageOf(thr[t].pc) + 1}
                  /\ thr'[t].sid = thr[t].sid
               \/ /\ thr'[t].pc = "idle"
                  /\ last'.op = "CreateSession"
                  /\ last'.id = thr[t].sid
                  /\ IF last'.status = BAKETA_CAPTURE_SUCCESS
                     THEN /\ StageOf(thr[t].pc) = 3
                          /\ sess'[thr[t].sid].m_initialized
                          /\ thr[t].sid \in g_sessions'
                     ELSE /\ last'.cause \in StageCauses(StageOf(thr[t].pc))
                          /\ sess'[thr[t].sid].life = "destroyed"
                          /\ thr[t].sid \notin g_sessions']_vars

\* item binding gave up after its last attempt: Initialize failed in its
\* second stage and the session is gone without a frame pool ever made
C26_Witness ==
    /\ last.op = "CreateSession"
    /\ last.cause = "bind_exhausted"
    /\ last.status # BAKETA_CAPTURE_SUCCESS
    /\ sess[last.id].life = "destroyed"
    /\ last.id \notin g_sessions

\* the hard conditions of the validator, as the claim lists them
WindowAcceptable(hwnd, w) ==
    /\ hwnd # "null"
    /\ IsWindow(hwnd, w)
    /\ w.visible
    /\ ~w.iconic
    /\ w.rect /\ w.width > 0 /\ w.height > 0

\* C27: the validator passes exactly when the handle is non-null and refers
\* to an existing window that is visible, not minimized, and whose rectangle
\* was obtained with positive width and height; whether the window is
\* oversized or in the foreground does not enter the result.
C27_ValidationCriteria ==
    pure.kind = "validated" =>
        /\ pure.ok = WindowAcceptable(pure.hwnd, pure.w)
        /\ pure.ok =>
              pure.warnings =
                 {x \in {"oversized"} :
                     pure.w.width > OversizeWidth \/ pure.w.height > OversizeHeight}
                 \cup {x \in {"not_foreground"} : ~pure.w.foreground}

\* a window wider than 7680 that is not in the foreground passed with both
\* warnings
C27_Witness ==
    /\ pure.kind = "validated"
    /\ pure.ok
    /\ pure.w.width > OversizeWidth
    /\ ~pure.w.foreground
    /\ pure.warnings = {"oversized", "not_foreground"}

\* C28, as stated: every capture call validates the window before it attempts
\* the capture. A thread that has issued StartCapture and waits for or converts
\* a frame does so with the window in a state the validator passes.
C28_CaptureRevalidates ==
    \A t \in Threads :
        thr[t].pc \in {"cap_wait", "cap_convert"} =>
            ValidateWindowStateForCapture(sess[thr[t].sid], thr[t].win).ok

\* thread t calls StartCapture on the capture session of its session
StartCaptureStep(t) ==
    /\ thr[t].pc = "cap_call"
    /\ \/ thr'[t].pc = "cap_wait"
       \/ thr'[t].pc = "idle" /\ last'.cause = "start"

\* C29, as stated: a capture call issues the start request only when the
\* producer of its session is not already running.
C29_StartOnlyWhenStopped ==
    [][\A t \in Threads : StartCaptureStep(t) => ~sess[thr[t].sid].capturing]_vars

\* the callback of session s ends without a frame to store
MissStep(s) == cb'[s] # cb[s] /\ cb'[s].seen \in {"miss", "no_texture"}

\* C30: a callback that finds no frame, or fails to extract the texture,
\* changes nothing but its own return: every session (frame slot, ready flag,
\* m_initialized, last error), every thread (no waiter leaves its wait), the
\* process-wide message and the clock stay as they were, and the callback is
\* idle again on a live, started session, ready for the next arrival.
C30_MissLeavesSlot ==
    [][\A s \in Ids :
         MissStep(s) =>
            /\ sess' = sess
            /\ thr' = thr
            /\ UNCHANGED <<g_initialized, g_sessions, g_lastError, last, now, texCount>>
            /\ cb'[s].pc = "idle"
            /\ sess'[s].life = "alive" /\ sess'[s].m_initialized /\ sess'[s].capturing]_vars

\* a callback found nothing to store while a capture call was waiting on the
\* empty slot, and the call is still waiting
C30_Witness ==
    \E s \in Ids :
        /\ cb[s].seen \in {"miss", "no_texture"}
        /\ cb[s].pc = "idle"
        /\ ~sess[s].m_frameReady
        /\ sess[s].m_initialized
        /\ \E t \in Threads : thr[t].pc = "cap_wait" /\ thr[t].sid = s

-----------------------------------------------------------------------------
(* The frame slot after a capture *)

\* C31, as stated: whenever the slot of a live session is drained (no pending
\* frame), its width, height and timestamp are all zero.
C31_DrainedSlotIsZero ==
    \A s \in Ids :
        (sess[s].life = "alive" /\ ~sess[s].m_frameReady) =>
            /\ sess[s].m_frameWidth = 0
            /\ sess[s].m_frameHeight = 0
            /\ sess[s].m_frameTimestamp = 0

\* C32, as stated: after a successful capture call has returned, and until a
\* new frame arrives, the frame slot no longer references the texture the call
\* converted.
C32_TextureDropped ==
    (/\ last.op \in CaptureOps
     /\ last.cause = "ok"
     /\ sess[last.sid].life = "alive"
     /\ ~sess[last.sid].m_frameReady) =>
        sess[last.sid].m_latestFrame.id # last.tex

-----------------------------------------------------------------------------
(* The pixel pipeline on its own: any surface size, row pitch and outcome *)

\* WindowsCaptureSession.cpp:548-575, the offsets of the mapped surface the
\* direct copy reads: the pixels sampled for the debug string (guarded by
\* i * 4 + 3 < RowPitch) and the bytesToCopy bytes of each row's memcpy
DirectCopyReads(tex, actualRowPitch) ==
    LET pixelRowBytes == tex.w * 4
        bytesToCopy   == IF pixelRowBytes <= actualRowPitch
                         THEN pixelRowBytes ELSE actualRowPitch
        maxPixels     == IF tex.w < 5 THEN tex.w ELSE 5
    IN  {i * 4 + c : i \in {j \in 0..(maxPixels - 1) : j * 4 + 3 < actualRowPitch},
                     c \in 0..3}
        \cup {y * actualRowPitch + k : y \in 0..(tex.h - 1), k \in 0..(bytesToCopy - 1)}

\* WindowsCaptureSession.cpp:571-581, the offsets of the output buffer written
\* by the memcpy and the memset of each row
DirectCopyWrites(tex, actualRowPitch) ==
    LET safeStride == SafeStride(tex.w, actualRowPitch)
    IN  {y * safeStride + k : y \in 0..(tex.h - 1), k \in 0..(safeStride - 1)}

\* WindowsCaptureSession.cpp:979-1000, the offsets of the mapped surface read
\* for the four neighbours of every destination pixel
ResizeReads(tex, srcRowPitch, finalWidth, finalHeight) ==
    LET xRatio == FDiv(IntToFloat(tex.w), IntToFloat(finalWidth))
        yRatio == FDiv(IntToFloat(tex.h), IntToFloat(finalHeight))
    IN  UNION {
          LET y0 == FloatToInt(FMul(IntToFloat(y), yRatio))
              y1 == Min(y0 + 1, tex.h - 1)
              x0 == FloatToInt(FMul(IntToFloat(x), xRatio))
              x1 == Min(x0 + 1, tex.w - 1)
          IN  {yy * srcRowPitch + xx * 4 + c : yy \in {y0, y1}, xx \in {x0, x1},
                                               c \in 0..3}
          : y \in 0..(finalHeight - 1), x \in 0..(finalWidth - 1)}

\* WindowsCaptureSession.cpp:987 and 1000-1008, the offsets of the output
\* buffer written by the resample
ResizeWrites(finalWidth, finalHeight) ==
    LET outputAlignedStride == AlignedStride(finalWidth * 4)
    IN  {y * outputAlignedStride + x * 4 + c :
            y \in 0..(finalHeight - 1), x \in 0..(finalWidth - 1), c \in 0..3}

\* source surfaces: srcDesc.Width and srcDesc.Height
SurfaceSizes == [w : 1..MaxDim, h : 1..MaxDim]

\* mappedResource.RowPitch of a surface of the given width: shorter than the
\* packed row, packed, and padded by the driver
MappedRowPitches(width) ==
    {p \in {width * 4 - 4, width * 4 - 1, width * 4, width * 4 + 16} : p > 0}

\* target boxes of the pipeline: none (CaptureFrame, the direct copy) and two
\* boxes of CaptureFrameResized
PixelTargets == {<<0, 0>>, <<2, 2>>, <<3, 1>>}

InitPixels ==
    /\ g_initialized = FALSE
    /\ g_sessions = {}
    /\ g_nextSessionId = 1
    /\ g_lastError = ""
    /\ sess = [s \in Ids |-> NoSession]
    /\ cb = [s \in Ids |-> NoCallback]
    /\ thr = [t \in Threads |-> IdleThread]
    /\ now = 0
    /\ texCount = 0
    /\ last = NoRes
    /\ \E size \in SurfaceSizes, target \in PixelTargets, o \in ConvertOutcomes :
       \E rowPitch \in MappedRowPitches(size.w) :
           pure = [kind |-> "surface", tex |-> [id |-> 1, w |-> size.w, h |-> size.h],
                   rowPitch |-> rowPitch, targetWidth |-> target[1],
                   targetHeight |-> target[2], o |-> o,
                   ok |-> FALSE, f |-> NoFrame, mapped |-> FALSE, unmapped |-> FALSE,
                   reads |-> {}, writes |-> {}, dataSize |-> 0]

\* the drawn call took the direct copy (ConvertTextureToBGRA itself, or the
\* branch of line 910)
PureDirect ==
    \/ pure.targetWidth = 0
    \/ NoResizeNeeded(pure.tex.w, pure.tex.h, pure.targetWidth, pure.targetHeight)

\* the record of a pipeline call on the drawn surface p: c is what the
\* conversion returned, reads and writes the offsets it accessed, dataSize the
\* size it allocated; a read outside the mapped region is undefined behaviour
\* and leaves no frame to look at
PixelRecord(p, c, reads, writes, dataSize) ==
    IF \E r \in reads : r >= p.tex.h * p.rowPitch
    THEN [p EXCEPT !.kind = "undefined", !.mapped = TRUE, !.reads = reads,
                   !.writes = writes, !.dataSize = dataSize]
    ELSE [p EXCEPT !.kind = "converted", !.ok = c.ok, !.f = c.f,
                   !.mapped = c.mapped, !.unmapped = c.unmapped, !.reads = reads,
                   !.writes = writes, !.dataSize = dataSize]

\* the offsets a pipeline call on p reads and writes once the output buffer is
\* allocated, and the size it allocates (lines 521 and 960), by the path taken
PixelAccess(p, c, direct, final) ==
    PixelRecord(p, c,
        IF ~(c.mapped /\ p.o # "alloc_fail") THEN {}
        ELSE IF direct THEN DirectCopyReads(p.tex, p.rowPitch)
        ELSE ResizeReads(p.tex, p.rowPitch, final.w, final.h),
        IF ~(c.mapped /\ p.o # "alloc_fail") THEN {}
        ELSE IF direct THEN DirectCopyWrites(p.tex, p.rowPitch)
        ELSE ResizeWrites(final.w, final.h),
        IF ~c.mapped THEN 0
        ELSE IF direct THEN p.tex.h * SafeStride(p.tex.w, p.rowPitch)
        ELSE final.h * AlignedStride(final.w * 4))

\* ConvertTextureToBGRA (no box) or ResizeAndConvertTextureToBGRA applied to the
\* drawn surface
PixelStep ==
    /\ pure.kind = "surface"
    /\ pure' = PixelAccess(pure,
                   IF pure.targetWidth = 0
                   THEN ConvertMapped(pure.tex, NoFrame, pure.o, pure.rowPitch)
                   ELSE ResizeMapped(pure.tex, NoFrame, pure.targetWidth,
                                     pure.targetHeight, pure.o, pure.rowPitch),
                   PureDirect,
                   IF pure.targetWidth = 0 THEN [w |-> pure.tex.w, h |-> pure.tex.h]
                   ELSE ComputeFinalSize(pure.tex.w, pure.tex.h, pure.targetWidth,
                                         pure.targetHeight))
    /\ UNCHANGED <<g_initialized, g_sessions, g_nextSessionId, g_lastError, sess,
                   cb, thr, now, texCount, last>>

NextPixels == PixelStep

SpecPixels == InitPixels /\ [][NextPixels]_vars

\* C33: the direct copy, for every width, height and source row pitch, gives
\* an output stride of max(row pitch, round_up_16(width * 4)), a buffer of
\* height * stride bytes, and in each output row the first
\* min(width * 4, row pitch) bytes of the source row followed by zero bytes.
C33_DirectCopyLayout ==
    (pure.kind = "converted" /\ PureDirect /\ pure.ok) =>
        LET tex    == pure.tex
            stride == pure.f.stride
            copy   == Min(tex.w * 4, pure.rowPitch)
        IN  /\ stride = Max(pure.rowPitch, AlignedStride(tex.w * 4))
            /\ Len(pure.f.bgraData) = tex.h * stride
            /\ pure.dataSize = tex.h * stride
            /\ \A y \in 0..(tex.h - 1) : \A k \in 0..(stride - 1) :
                  pure.f.bgraData[y * stride + k + 1] =
                      IF k < copy
                      THEN MappedByte(tex, pure.rowPitch, y * pure.rowPitch + k)
                      ELSE 0

\* a direct copy of several rows from a surface whose pitch is shorter than a
\* packed row, and one from a surface whose pitch exceeds the aligned stride
C33_Witness ==
    /\ pure.kind = "converted"
    /\ pure.ok
    /\ pure.targetWidth = 0
    /\ pure.tex.h >= 2
    /\ pure.rowPitch < pure.tex.w * 4
    /\ pure.f.stride > pure.rowPitch
    /\ Len(pure.f.bgraData) = pure.tex.h * pure.f.stride

\* C34, as stated: for every source size, final size and row pitch, every
\* offset read from the mapped surface by the direct copy and by the bilinear
\* resize is below srcHeight * rowPitch, and every offset written is inside
\* the allocated output buffer.
C34_AccessInsideRegions ==
    (pure.kind \in {"converted", "undefined"}) =>
        /\ \A r \in pure.reads : r >= 0 /\ r < pure.tex.h * pure.rowPitch
        /\ \A w \in pure.writes : w >= 0 /\ w < pure.dataSize

\* C35, as stated: every successful Map of the staging surface is matched by
\* an Unmap before the pixel-pipeline function returns, on every exit path.
C35_MapMatchedByUnmap ==
    (pure.kind = "converted" /\ pure.mapped) => pure.unmapped

-----------------------------------------------------------------------------
(* Termination of the capture calls: a session with its consumers, its
   producer and a host thread that may release it, under fair scheduling.
   The calls are CaptureFrame calls; CaptureFrameResized checks, waits and
   returns through the same steps *)

\* outcomes of the conversion in the termination check
ReturnOutcomes == {"ok", "staging_fail"}

NextReturn ==
    \/ \E t \in Threads : Cap_Enter(t, "CaptureFrame", 1, <<0, 0>>, FALSE)
    \/ \E t \in Threads, startThrows \in BOOLEAN : Cap_Call(t, startThrows, WinNormal)
    \/ \E t \in Threads : Cap_Wake(t)
    \/ \E t \in Threads : Cap_Timeout(t)
    \/ \E t \in Threads, o \in ReturnOutcomes : Cap_Convert(t, o)
    \/ \E t \in Threads : Cap_UseAfterFree(t)
    \/ \E t \in Threads : ReleaseSession(t, 1)
    \/ \E s \in Ids : Arrive(s, "frame")
    \/ \E s \in Ids : Store(s, 1)
    \/ \E s \in Ids : Store_UseAfterFree(s)

\* a host thread inside a capture call keeps running: the checks and
\* StartCapture complete (weak fairness); wait_for returns, with the frame or
\* at the timeout, once it gets m_frameMutex back, which other consumers hold
\* only for the length of a conversion (strong fairness); the conversion
\* completes (weak fairness). Nothing obliges the host to call, the producer to
\* deliver, or anyone to release the session
FairReturn ==
    \A t \in Threads :
        /\ WF_vars(\E startThrows \in BOOLEAN : Cap_Call(t, startThrows, WinNormal))
        /\ SF_vars(Cap_Wake(t) \/ Cap_Timeout(t))
        /\ WF_vars(\E o \in ReturnOutcomes : Cap_Convert(t, o))

SpecReturn == InitCapture /\ [][NextReturn]_vars /\ FairReturn

\* thread t is inside BaketaCapture_CaptureFrame / _CaptureFrameResized
InCapture(t) == thr[t].pc \notin {"idle"}

\* m_frameMutex is held only by a thread that is converting on that session
LockHeldOnlyInCall ==
    \A s \in Ids :
        sess[s].m_frameMutex # 0 =>
            /\ sess[s].m_frameMutex \in Threads
            /\ thr[sess[s].m_frameMutex].pc = "cap_convert"
            /\ thr[sess[s].m_frameMutex].sid = s

ReturnsWhileSessionLives ==
    /\ [] LockHeldOnlyInCall
    /\ \A t \in Threads :
          InCapture(t) ~> (thr[t].pc = "idle" \/ sess[1].life = "destroyed")

-----------------------------------------------------------------------------
(* Concurrent consumers of one session *)

\* thread t returns from the locked part of a capture call with success
CaptureSucceeds(t) ==
    /\ thr[t].pc = "cap_convert"
    /\ thr'[t].pc = "idle"
    /\ last'.cause = "ok"

\* C37: each arrived frame is delivered by at most one successful capture
\* call, also with several calls running on the session: the call that
\* succeeds holds the lock and sees the slot ready, leaves the slot not ready
\* when it gives the lock back, and delivers the texture stored last, which is
\* later than every texture a call on the session delivered before.
C37_OneCallPerArrival ==
    [][\A t \in Threads :
          CaptureSucceeds(t) =>
              LET S  == sess[thr[t].sid]
                  S2 == sess'[thr[t].sid]
              IN  /\ S.m_frameMutex = t
                  /\ S.m_frameReady
                  /\ ~S2.m_frameReady
                  /\ S2.m_frameMutex = 0
                  /\ last'.tex = S.m_latestFrame.id
                  /\ last'.tex > S.retTex
                  /\ S2.retTex = last'.tex]_vars

\* a second capture succeeded on a session while another call was waiting on
\* the same session
C37_Witness ==
    /\ last.op \in CaptureOps
    /\ last.cause = "ok"
    /\ last.prevTex >= 1
    /\ \E t \in Threads : thr[t].pc = "cap_wait" /\ thr[t].sid = last.sid

\* C38: a successful capture returns a consistent snapshot of one arrival:
\* the texture converted is the one the last callback stored, the timestamp is
\* the one that callback stored with it, and the size and pixels reported are
\* those of that texture (resampled to the box when a resize was needed).
C38_ConsistentSnapshot ==
    (last.op \in CaptureOps /\ last.cause = "ok") =>
        LET tex == TexOf(last.tex)
        IN  /\ last.tex \in 1..MaxFrames
            /\ last.tex = last.latest
            /\ last.frame.timestamp = last.latestTs
            /\ IF DirectPath(last) \/ NoResizeNeeded(tex.w, tex.h, last.tw, last.th)
               THEN /\ last.frame.width = tex.w
                    /\ last.frame.height = tex.h
                    /\ last.frame.stride = SafeStride(tex.w, StagingRowPitch(tex))
                    /\ last.frame.bgraData = DirectCopyBytes(tex, StagingRowPitch(tex))
               ELSE LET img == ResizedImages[last.tex][<<last.tw, last.th>>]
                    IN  /\ last.frame.width = img.w
                        /\ last.frame.height = img.h
                        /\ last.frame.bgraData = img.bytes
                        /\ last.frame.originalWidth = tex.w
                        /\ last.frame.originalHeight = tex.h

\* the second arrival, of another size and stamped later than the first, was
\* returned by CaptureFrame after the first had been returned
C38_Witness ==
    /\ last.op = "CaptureFrame"
    /\ last.cause = "ok"
    /\ last.prevTex = 1
    /\ last.tex = 2
    /\ last.frame.timestamp > last.prevTs
    /\ last.frame.width = TexOf(2).w
    /\ last.frame.width # TexOf(1).w

-----------------------------------------------------------------------------
(* Capture calls that fail *)

\* C39, as stated: whenever BaketaCapture_CaptureFrame or
\* BaketaCapture_CaptureFrameResized returns a non-success status, the output
\* frame has a null pixel pointer and zero width, height, stride and timestamp.
C39_FailureTransfersNothing ==
    (last.op \in CaptureOps /\ last.status # BAKETA_CAPTURE_SUCCESS) =>
        /\ last.frame.bgraData = <<>>
        /\ last.frame.width = 0
        /\ last.frame.height = 0
        /\ last.frame.stride = 0
        /\ last.frame.timestamp = 0

\* thread t returns from the locked part of a capture call because the pixel
\* pipeline failed
PipelineFails(t) ==
    /\ thr[t].pc = "cap_convert"
    /\ thr'[t].pc = "idle"
    /\ last'.cause = "convert"

\* C40: a capture call that fails in the pixel pipeline does not consume the
\* frame: the slot's ready flag, texture, size and timestamp are what they
\* were when the call found the frame, and the lock is free, so the next call
\* on the session finds the same frame ready without a new arrival.
C40_FailureKeepsFrame ==
    [][\A t \in Threads :
          PipelineFails(t) =>
              LET S  == sess[thr[t].sid]
                  S2 == sess'[thr[t].sid]
              IN  /\ S.m_frameReady
                  /\ S2.m_frameReady
                  /\ S2.m_latestFrame = S.m_latestFrame
                  /\ S2.m_frameWidth = S.m_frameWidth
                  /\ S2.m_frameHeight = S.m_frameHeight
                  /\ S2.m_frameTimestamp = S.m_frameTimestamp
                  /\ S2.m_frameMutex = 0
                  /\ last'.tex = S2.m_latestFrame.id]_vars

\* after a call failed in the pixel pipeline, another call has woken on the
\* frame the failed call had found, and holds the lock to convert it
C40_Witness ==
    /\ last.op \in CaptureOps
    /\ last.cause = "convert"
    /\ last.tex >= 1
    /\ \E t \in Threads :
          /\ thr[t].pc = "cap_convert"
          /\ thr[t].sid = last.sid
          /\ sess[last.sid].m_frameMutex = t
          /\ sess[last.sid].m_frameReady
          /\ sess[last.sid].m_latestFrame.id = last.tex

====
